---- MODULE Spec2Model ----
(***************************************************************************)
(* Model of the financial-metrics engine (FinancialCalculator) and of the  *)
(* Monte Carlo simulator (MonteCarloSimulator) of                          *)
(* app/analytics/financial_calculator.py and app/analytics/monte_carlo.py. *)
(*                                                                         *)
(* Numbers.  A Python float is modelled by the exact rational it denotes,  *)
(* a record [n |-> numerator, d |-> denominator] in lowest terms, d > 0.   *)
(* Floating-point rounding error is therefore not modelled; round(x, k)    *)
(* is.  A Python exception is a record [err |-> name]; NaN and a complex   *)
(* number are records [k |-> "nan"] and [k |-> "complex", ...].            *)
(*                                                                         *)
(* Objects.  Python dicts have identity: the profile dict of the caller,   *)
(* calculator.property and simulator.property may be one object or         *)
(* several, and so may simulator.params and the simulation_parameters of   *)
(* a returned result.  The model keeps two heaps (props, pars) of dict     *)
(* objects and the references into them.                                   *)
(***************************************************************************)
EXTENDS Integers, Sequences, FiniteSets, TLC

(***************************************************************************)
(* Bounds of the model.                                                    *)
(***************************************************************************)
MaxSims == 2
MaxYears == 2

(***************************************************************************)
(* Rational arithmetic.                                                    *)
(***************************************************************************)
\* F(v): the body of F with the name it binds standing for the value v
With(v, F(_)) == F(v)

Abs(a) == IF a < 0 THEN -a ELSE a

RECURSIVE Gcd(_, _)
Gcd(a, b) == IF b = 0 THEN a ELSE Gcd(b, a % b)

Q(n, d) ==
    LET g == Gcd(Abs(n), Abs(d))
        s == IF d < 0 THEN -1 ELSE 1
    IN  [n |-> (s * n) \div g, d |-> (s * d) \div g]

I(i) == [n |-> i, d |-> 1]
Zero == I(0)
One == I(1)

QNeg(a) == [n |-> -a.n, d |-> a.d]

QAdd(a, b) ==
    LET g == Gcd(a.d, b.d)
    IN  Q(a.n * (b.d \div g) + b.n * (a.d \div g), (a.d \div g) * b.d)

QSub(a, b) == QAdd(a, QNeg(b))

QMul(a, b) ==
    LET g1 == Gcd(Abs(a.n), b.d)
        g2 == Gcd(Abs(b.n), a.d)
    IN  IF a.n = 0 \/ b.n = 0 THEN Zero
        ELSE Q((a.n \div g1) * (b.n \div g2), (a.d \div g2) * (b.d \div g1))

\* the reciprocal of a nonzero rational
QInv(a) == IF a.n < 0 THEN [n |-> -a.d, d |-> -a.n] ELSE [n |-> a.d, d |-> a.n]

\* a / b for b # 0 (the callers test b first, as the code does)
QDiv(a, b) == QMul(a, QInv(b))

\* an/ad < bn/bd for ad, bd > 0, by comparing the continued fractions (no
\* product is formed)
RECURSIVE FracLt(_, _, _, _)
FracLt(an, ad, bn, bd) ==
    LET qa == an \div ad
        qb == bn \div bd
        ra == an % ad
        rb == bn % bd
    IN  IF qa # qb THEN qa < qb
        ELSE IF rb = 0 THEN FALSE
        ELSE IF ra = 0 THEN TRUE
        ELSE FracLt(bd, rb, ad, ra)

QLt(a, b) == FracLt(a.n, a.d, b.n, b.d)

QLe(a, b) == a = b \/ QLt(a, b)

QIsZero(a) == a.n = 0

RECURSIVE PowInt(_, _)
PowInt(b, e) == IF e = 0 THEN 1 ELSE b * PowInt(b, e - 1)

\* a ** e for a natural exponent e
RECURSIVE QPow(_, _)
QPow(a, e) == IF e = 0 THEN One ELSE QMul(a, QPow(a, e - 1))

\* Python's round(x, k): the nearest multiple of 10^-k, a tie going to the
\* even neighbour.
Rounded(s, p) ==
    LET f == s.n \div s.d
        r == s.n % s.d
        up == \/ 2 * r > s.d
              \/ (2 * r = s.d /\ f % 2 = 1)
    IN  Q(IF up THEN f + 1 ELSE f, p)

Round(x, k) == Rounded(QMul(x, I(PowInt(10, k))), PowInt(10, k))

RECURSIVE QSum(_)
QSum(xs) == IF xs = << >> THEN Zero ELSE QAdd(xs[1], QSum(Tail(xs)))

(***************************************************************************)
(* Exceptions.  Every number is a record with the fields n and d; an       *)
(* exception is a record with the field err.                               *)
(***************************************************************************)
Raise(name) == [err |-> name]
IsErr(v) == "err" \in DOMAIN v

(***************************************************************************)
(* Profile dicts.  A dict is a function from the keys it holds; the value  *)
(* of "monthly_expenses" is again a dict, every other value a number.      *)
(***************************************************************************)
RequiredFields ==
    <<"purchase_price", "down_payment", "loan_amount",
      "interest_rate", "loan_term_years", "monthly_rent">>

ExpenseCategories ==
    <<"property_tax", "insurance", "maintenance", "vacancy_allowance",
      "property_management", "hoa_fees", "other_expenses">>

EmptyDict == << >>

Get(dict, key, default) == IF key \in DOMAIN dict THEN dict[key] ELSE default

\* FinancialCalculator._validate_inputs: the first required field that is
\* missing raises ValueError.
MissingFields(p) ==
    {i \in 1..Len(RequiredFields) : RequiredFields[i] \notin DOMAIN p}

\* a validation that does not look at the last required field
ValidateInputsButLast(p) ==
    IF MissingFields(p) \ {Len(RequiredFields)} = {} THEN "ok" ELSE "ValueError"

ValidateInputs(p) ==
    IF MissingFields(p) = {} THEN "ok" ELSE "ValueError"

\* no HTTP request is being served
NoResponse == [state |-> "none"]

\* the text of an exception: its wording and the name it mentions
NoMessage == [text |-> "", about |-> ""]

\* line 39: the message names the first required field that is missing
MissingFieldMessage(p) ==
    [text |-> "Missing required field",
     about |-> RequiredFields[CHOOSE i \in MissingFields(p) :
                                 \A j \in MissingFields(p) : i <= j]]

\* a truthiness under which the number 0 counts as a value
TruthyUnlessEmpty(key, v) ==
    IF key = "monthly_expenses" THEN DOMAIN v # {} ELSE TRUE

\* Python truthiness of a profile value: 0 and the empty dict are falsy.
Truthy(key, v) ==
    IF key = "monthly_expenses" THEN DOMAIN v # {} ELSE ~QIsZero(v)

(***************************************************************************)
(* FinancialCalculator: the metrics, as operators of the profile dict p    *)
(* that calculator.property refers to at the time of the call.             *)
(***************************************************************************)
\* a payment that is rounded to cents in the zero-rate branch as well
monthly_payment_rounding_every_branch(p) ==
    With(QDiv(QDiv(p["interest_rate"], I(100)), I(12)), LAMBDA monthly_rate :
    With(QMul(p["loan_term_years"], I(12)), LAMBDA num_payments :
        IF QIsZero(monthly_rate)
        THEN IF QIsZero(num_payments) THEN Raise("ZeroDivisionError")
             ELSE Round(QDiv(p["loan_amount"], num_payments), 2)
        ELSE With(QPow(QAdd(One, monthly_rate), num_payments.n), LAMBDA growth :
             IF QIsZero(QSub(growth, One)) THEN Raise("ZeroDivisionError")
             ELSE Round(QDiv(QMul(p["loan_amount"], QMul(monthly_rate, growth)),
                             QSub(growth, One)), 2))))

calculate_monthly_payment(p) ==
    With(QDiv(QDiv(p["interest_rate"], I(100)), I(12)), LAMBDA monthly_rate :
    With(QMul(p["loan_term_years"], I(12)), LAMBDA num_payments :
        IF QIsZero(monthly_rate)
        THEN IF QIsZero(num_payments) THEN Raise("ZeroDivisionError")
             ELSE QDiv(p["loan_amount"], num_payments)
        ELSE With(QPow(QAdd(One, monthly_rate), num_payments.n), LAMBDA growth :
             IF QIsZero(QSub(growth, One)) THEN Raise("ZeroDivisionError")
             ELSE Round(QDiv(QMul(p["loan_amount"], QMul(monthly_rate, growth)),
                             QSub(growth, One)), 2))))

\* a total that counts the closing costs as an eighth monthly category
total_with_closing_costs(p) ==
    With(Get(p, "monthly_expenses", EmptyDict), LAMBDA expenses :
        Round(QAdd(QSum([i \in 1..Len(ExpenseCategories) |->
                            Get(expenses, ExpenseCategories[i], Zero)]),
                   Get(expenses, "closing_costs", Zero)), 2))

calculate_total_monthly_expenses(p) ==
    With(Get(p, "monthly_expenses", EmptyDict), LAMBDA expenses :
        Round(QSum([i \in 1..Len(ExpenseCategories) |->
                       Get(expenses, ExpenseCategories[i], Zero)]), 2))

calculate_monthly_cash_flow(p) ==
    With(calculate_monthly_payment(p), LAMBDA monthly_payment :
        IF IsErr(monthly_payment) THEN monthly_payment
        ELSE Round(QSub(QSub(p["monthly_rent"], monthly_payment),
                        calculate_total_monthly_expenses(p)), 2))

calculate_annual_cash_flow(p) ==
    With(calculate_monthly_cash_flow(p), LAMBDA monthly_cash_flow :
        IF IsErr(monthly_cash_flow) THEN monthly_cash_flow
        ELSE Round(QMul(monthly_cash_flow, I(12)), 2))

calculate_noi(p) ==
    Round(QSub(QMul(p["monthly_rent"], I(12)),
               QMul(calculate_total_monthly_expenses(p), I(12))), 2)

calculate_cap_rate(p) ==
    IF QIsZero(p["purchase_price"]) THEN Zero
    ELSE Round(QMul(QDiv(calculate_noi(p), p["purchase_price"]), I(100)), 3)

\* down_payment + closing_costs, the cash basis of calculate_cash_on_cash_return
\* and calculate_roi
TotalInvestment(p) ==
    QAdd(p["down_payment"],
         Get(Get(p, "monthly_expenses", EmptyDict), "closing_costs", Zero))

calculate_cash_on_cash_return(p) ==
    With(calculate_annual_cash_flow(p), LAMBDA annual_cash_flow :
    With(TotalInvestment(p), LAMBDA total_investment :
        IF IsErr(annual_cash_flow) THEN annual_cash_flow
        ELSE IF QIsZero(total_investment) THEN Zero
        ELSE Round(QMul(QDiv(annual_cash_flow, total_investment), I(100)), 3)))

calculate_annual_interest_payment(p) ==
    Round(QMul(p["loan_amount"], QDiv(p["interest_rate"], I(100))), 2)

calculate_annual_principal_paydown(p) ==
    With(calculate_monthly_payment(p), LAMBDA monthly_payment :
        IF IsErr(monthly_payment) THEN monthly_payment
        ELSE Round(QSub(QMul(monthly_payment, I(12)),
                        calculate_annual_interest_payment(p)), 2))

calculate_roi(p) ==
    With(calculate_annual_cash_flow(p), LAMBDA annual_cash_flow :
    With(TotalInvestment(p), LAMBDA total_investment :
        IF IsErr(annual_cash_flow) THEN annual_cash_flow
        ELSE IF QIsZero(total_investment) THEN Zero
        ELSE Round(QMul(QDiv(QAdd(annual_cash_flow,
                                  calculate_annual_principal_paydown(p)),
                             total_investment), I(100)), 3)))

calculate_dscr(p) ==
    With(calculate_monthly_payment(p), LAMBDA monthly_payment :
        IF IsErr(monthly_payment) THEN monthly_payment
        ELSE IF QIsZero(QMul(monthly_payment, I(12))) THEN Zero
        ELSE Round(QDiv(calculate_noi(p), QMul(monthly_payment, I(12))), 3))

calculate_break_even_ratio(p) ==
    With(calculate_monthly_payment(p), LAMBDA monthly_payment :
        IF IsErr(monthly_payment) THEN monthly_payment
        ELSE IF QIsZero(p["monthly_rent"]) THEN Zero
        ELSE Round(QDiv(QAdd(monthly_payment, calculate_total_monthly_expenses(p)),
                        p["monthly_rent"]), 3))

\* the guard of the multiplier put on the purchase price instead of the rent
gross_rent_multiplier_guarding_price(p) ==
    IF QIsZero(p["purchase_price"]) THEN Zero
    ELSE IF QIsZero(p["monthly_rent"]) THEN Raise("ZeroDivisionError")
    ELSE Round(QDiv(p["purchase_price"], QMul(p["monthly_rent"], I(12))), 2)

calculate_gross_rent_multiplier(p) ==
    With(QMul(p["monthly_rent"], I(12)), LAMBDA annual_rent :
        IF QIsZero(annual_rent) THEN Zero
        ELSE Round(QDiv(p["purchase_price"], annual_rent), 2))

\* get_comprehensive_analysis: every metric, or ValueError when one raises
get_comprehensive_analysis(p) ==
    With([cash_flow_analysis |->
              [monthly_cash_flow |-> calculate_monthly_cash_flow(p),
               annual_cash_flow |-> calculate_annual_cash_flow(p),
               monthly_payment |-> calculate_monthly_payment(p),
               total_monthly_expenses |-> calculate_total_monthly_expenses(p),
               net_operating_income |-> calculate_noi(p)],
          profitability_ratios |->
              [cap_rate |-> calculate_cap_rate(p),
               cash_on_cash_return |-> calculate_cash_on_cash_return(p),
               roi |-> calculate_roi(p),
               gross_rent_multiplier |-> calculate_gross_rent_multiplier(p)],
          risk_metrics |->
              [dscr |-> calculate_dscr(p),
               break_even_ratio |-> calculate_break_even_ratio(p),
               loan_to_value |-> Get(p, "loan_to_value_ratio", Zero)],
          loan_analysis |->
              [annual_principal_paydown |-> calculate_annual_principal_paydown(p),
               annual_interest_payment |-> calculate_annual_interest_payment(p),
               loan_amount |-> p["loan_amount"],
               interest_rate |-> p["interest_rate"]]],
         LAMBDA result :
             IF \E group \in DOMAIN result : \E metric \in DOMAIN result[group] :
                    IsErr(result[group][metric])
             THEN Raise("ValueError")
             ELSE result)

(***************************************************************************)
(* MonteCarloSimulator: configuration.  A params dict is a function from   *)
(* its keys; simulations and years are integers, a range is a sequence of  *)
(* numbers, every other value a number.                                    *)
(***************************************************************************)
default_params ==
    [simulations |-> 10000,
     years |-> 10,
     rent_growth_range |-> <<Q(2, 100), Q(5, 100)>>,
     expense_volatility |-> Q(1, 10),
     vacancy_rate_range |-> <<Q(5, 100), Q(15, 100)>>,
     interest_rate_volatility |-> Q(2, 100),
     appreciation_range |-> <<Q(2, 100), Q(4, 100)>>,
     major_repair_probability |-> Q(1, 10),
     major_repair_cost_range |-> <<I(5000), I(15000)>>]

\* a merge in which the first dict wins
MergeKeepingFirst(a, b) ==
    [key \in DOMAIN a \cup DOMAIN b |-> IF key \in DOMAIN a THEN a[key] ELSE b[key]]

\* {**a, **b}: the keys of both, b's value where b has the key
Merge(a, b) ==
    [key \in DOMAIN a \cup DOMAIN b |-> IF key \in DOMAIN b THEN b[key] ELSE a[key]]

CheckedRanges == {"rent_growth_range", "vacancy_rate_range", "appreciation_range"}

\* line 53: the message names the first checked range that has not two entries
RangeMessage(params) ==
    LET validated_params == Merge(default_params, params)
        order == <<"rent_growth_range", "vacancy_rate_range", "appreciation_range">>
        bad == {i \in 1..3 : Len(validated_params[order[i]]) # 2}
    IN  [text |-> "must be a list of two values [min, max]",
         about |-> order[CHOOSE i \in bad : \A j \in bad : i <= j]]

\* MonteCarloSimulator._validate_params: the merged dict, or ValueError when
\* one of the three checked ranges has not two entries.
ValidateParams(params) ==
    LET validated_params == Merge(default_params, params)
    IN  IF \E key \in CheckedRanges : Len(validated_params[key]) # 2
        THEN Raise("ValueError")
        ELSE validated_params

(***************************************************************************)
(* The random source.  numpy's global generator is modelled by a linear    *)
(* congruential generator over RngStates: np.random.seed(s) sets the       *)
(* state, every draw returns the unit value of the current state and       *)
(* advances it.  Each of uniform, normal and random consumes one draw.     *)
(***************************************************************************)
RngStates == 0 .. 7

RngNext(s) == (5 * s + 1) % 8

\* the unit draw in [0, 1) of state s
RngUnit(s) == Q(s \div 2, 4)

\* np.random.uniform(*args) for up to two arguments (low = 0, high = 1 by
\* default): low + (high - low) * u, also when low > high.
Uniform(args, s) ==
    LET low == IF Len(args) >= 1 THEN args[1] ELSE Zero
        high == IF Len(args) >= 2 THEN args[2] ELSE One
    IN  QAdd(low, QMul(QSub(high, low), RngUnit(s)))

\* np.random.normal(1.0, scale): 1 + scale * z, where the unit draw u is
\* mapped to the deviate z = 4u - 3/2, symmetric around 0.
Normal(scale, s) ==
    QAdd(One, QMul(scale, QSub(QMul(I(4), RngUnit(s)), Q(3, 2))))

(***************************************************************************)
(* One year of a trial (the body of the loop of _run_single_simulation),   *)
(* from the params dict P read in that year, the trial's locals and the    *)
(* generator state s.                                                      *)
(***************************************************************************)
YearDraws(P, s) ==
    LET s1 == RngNext(s)
        s2 == RngNext(s1)
        s3 == RngNext(s2)
        s4 == RngNext(s3)
        s5 == RngNext(s4)
        event == QLt(RngUnit(s4), P["major_repair_probability"])
    IN  [rent_growth |-> Uniform(P["rent_growth_range"], s),
         expense_multiplier |-> Normal(P["expense_volatility"], s1),
         vacancy_rate |-> Uniform(P["vacancy_rate_range"], s2),
         appreciation_rate |-> Uniform(P["appreciation_range"], s3),
         repair_event |-> event,
         major_repair_cost |->
             IF event THEN Uniform(P["major_repair_cost_range"], s5) ELSE Zero,
         rng |-> IF event THEN RngNext(s5) ELSE s5]

\* a year whose repair cost is taken off the monthly cash flow, before the
\* multiplication by 12
YearCashFlowRepairMonthly(draws, current_rent, initial_expenses, monthly_payment) ==
    LET effective_monthly_rent ==
            QMul(current_rent, QSub(One, draws.vacancy_rate))
        current_expenses == QMul(initial_expenses, draws.expense_multiplier)
        monthly_cash_flow ==
            QSub(QSub(effective_monthly_rent, monthly_payment), current_expenses)
    IN  QMul(QSub(monthly_cash_flow, draws.major_repair_cost), I(12))

YearCashFlow(draws, current_rent, initial_expenses, monthly_payment) ==
    LET effective_monthly_rent ==
            QMul(current_rent, QSub(One, draws.vacancy_rate))
        current_expenses == QMul(initial_expenses, draws.expense_multiplier)
        monthly_cash_flow ==
            QSub(QSub(effective_monthly_rent, monthly_payment), current_expenses)
    IN  QSub(QMul(monthly_cash_flow, I(12)), draws.major_repair_cost)

(***************************************************************************)
(* IRR.  numpy_financial.irr is a library routine outside the repository.  *)
(* It returns NaN when the series has no sign change (no rate exists).     *)
(* For a series of two entries with a sign change the rate is              *)
(* -c1/c0 - 1.  For a longer series whose first and last entries have      *)
(* opposite signs a real rate exists; its value is kept as the term        *)
(* [k |-> "irr", of |-> series].  For a longer series with a sign change   *)
(* whose first and last entries do not have opposite signs, a real root    *)
(* may or may not be found: finds tells which.                             *)
(***************************************************************************)
NaN == [k |-> "nan"]

IsNum(v) == DOMAIN v = {"n", "d"}

HasPositive(xs) == \E i \in 1..Len(xs) : xs[i].n > 0
HasNegative(xs) == \E i \in 1..Len(xs) : xs[i].n < 0

NpfIrr(series, finds) ==
    LET first == series[1]
        last == series[Len(series)]
        opposite == \/ first.n < 0 /\ last.n > 0
                    \/ first.n > 0 /\ last.n < 0
    IN  IF ~(HasPositive(series) /\ HasNegative(series)) THEN NaN
        ELSE IF Len(series) = 2
             THEN QSub(QNeg(QDiv(last, first)), One)
        ELSE IF opposite \/ finds THEN [k |-> "irr", of |-> series]
        ELSE NaN

\* float(irr_result) * 100
Percent(v) == IF IsNum(v) THEN QMul(v, I(100)) ELSE [k |-> "pct", of |-> v]

\* x ** (1/years) - 1, times 100, as Python computes it: a negative base with
\* a fractional exponent gives a complex number.
AnnualizedReturn(base, years) ==
    IF years = 1 \/ base = One \/ base = Zero
    THEN QMul(QSub(base, One), I(100))
    ELSE IF base.n < 0 THEN [k |-> "complex", base |-> base, years |-> years]
    ELSE [k |-> "root", base |-> base, years |-> years]

\* the except branch of _calculate_irr
IrrFallback(cash_flows, initial_investment, final_value) ==
    IF Len(cash_flows) > 0 /\ initial_investment.n > 0
    THEN AnnualizedReturn(
             QDiv(QSub(QAdd(QSum(cash_flows), final_value), initial_investment),
                  initial_investment),
             Len(cash_flows))
    ELSE Zero

\* the cash-flow series handed to the library; cash_flows[-1] of an empty
\* list raises IndexError inside the try
IrrSeries(cash_flows, initial_investment, final_value) ==
    LET n == Len(cash_flows)
    IN  <<QNeg(initial_investment)>> \o SubSeq(cash_flows, 1, n - 1)
            \o <<QAdd(cash_flows[n], final_value)>>

calculate_irr(cash_flows, initial_investment, final_value, finds) ==
    IF cash_flows = << >>
    THEN IrrFallback(cash_flows, initial_investment, final_value)
    ELSE With(NpfIrr(IrrSeries(cash_flows, initial_investment, final_value), finds),
              LAMBDA irr_result :
                  IF irr_result = NaN
                  THEN IrrFallback(cash_flows, initial_investment, final_value)
                  ELSE Percent(irr_result))

\* whether the library call of this trial failed (the fallback was taken)
IrrFailed(cash_flows, initial_investment, final_value, finds) ==
    \/ cash_flows = << >>
    \/ NpfIrr(IrrSeries(cash_flows, initial_investment, final_value), finds) = NaN

RECURSIVE QMin(_)
QMin(xs) ==
    IF Len(xs) = 1 THEN xs[1]
    ELSE LET m == QMin(Tail(xs)) IN IF QLt(m, xs[1]) THEN m ELSE xs[1]

RECURSIVE QMax(_)
QMax(xs) ==
    IF Len(xs) = 1 THEN xs[1]
    ELSE LET m == QMax(Tail(xs)) IN IF QLt(xs[1], m) THEN m ELSE xs[1]

\* a trial whose total return leaves the initial investment out
TrialOutcomeGross(p, annual_cash_flows, current_property_value, initial_property_value, finds) ==
    With(QSum(annual_cash_flows), LAMBDA cumulative_cash_flow :
    With(TotalInvestment(p), LAMBDA total_investment :
    With(QSub(current_property_value, initial_property_value),
         LAMBDA appreciation_gain :
        IF annual_cash_flows = << >> THEN Raise("ValueError")
        ELSE [annual_cash_flows |-> annual_cash_flows,
              cumulative_cash_flow |-> cumulative_cash_flow,
              total_return |-> QAdd(cumulative_cash_flow, appreciation_gain),
              final_property_value |-> current_property_value,
              irr |-> calculate_irr(annual_cash_flows, total_investment,
                                    appreciation_gain, finds),
              irr_failed |-> IrrFailed(annual_cash_flows, total_investment,
                                       appreciation_gain, finds),
              worst_year_cash_flow |-> QMin(annual_cash_flows),
              best_year_cash_flow |-> QMax(annual_cash_flows)])))

\* The dict returned by _run_single_simulation after the loop, or the
\* exception it raises: min() of an empty list is a ValueError.
TrialOutcome(p, annual_cash_flows, current_property_value, initial_property_value, finds) ==
    With(QSum(annual_cash_flows), LAMBDA cumulative_cash_flow :
    With(TotalInvestment(p), LAMBDA total_investment :
    With(QSub(current_property_value, initial_property_value),
         LAMBDA appreciation_gain :
        IF annual_cash_flows = << >> THEN Raise("ValueError")
        ELSE [annual_cash_flows |-> annual_cash_flows,
              cumulative_cash_flow |-> cumulative_cash_flow,
              total_return |->
                  QSub(QAdd(cumulative_cash_flow, appreciation_gain),
                       total_investment),
              final_property_value |-> current_property_value,
              irr |-> calculate_irr(annual_cash_flows, total_investment,
                                    appreciation_gain, finds),
              irr_failed |-> IrrFailed(annual_cash_flows, total_investment,
                                       appreciation_gain, finds),
              worst_year_cash_flow |-> QMin(annual_cash_flows),
              best_year_cash_flow |-> QMax(annual_cash_flows)])))

(***************************************************************************)
(* Statistics (_calculate_statistics).  np.std is not computed             *)
(* numerically: the population standard deviation is 0 exactly when all    *)
(* values are equal, and is otherwise kept as the positive term            *)
(* [k |-> "std", of |-> values].  A vector holding a term that is not a    *)
(* number (an IRR kept as a term) has terms for its statistics.            *)
(***************************************************************************)
RECURSIVE Insert(_, _)
Insert(x, sorted) ==
    IF sorted = << >> THEN <<x>>
    ELSE IF QLe(x, sorted[1]) THEN <<x>> \o sorted
    ELSE <<sorted[1]>> \o Insert(x, Tail(sorted))

RECURSIVE Sort(_)
Sort(xs) == IF xs = << >> THEN << >> ELSE Insert(xs[1], Sort(Tail(xs)))

AllNum(xs) == \A i \in 1..Len(xs) : IsNum(xs[i])
AllEqual(xs) == \A i \in 1..Len(xs) : xs[i] = xs[1]

Mean(xs) == QDiv(QSum(xs), I(Len(xs)))

Std(xs) == IF AllEqual(xs) THEN Zero ELSE [k |-> "std", of |-> xs]

\* np.percentile(values, q), linear interpolation between closest ranks
Percentile(xs, q) ==
    LET sorted == Sort(xs)
        pos == (Len(xs) - 1) * q
        lo == pos \div 100
        frac == Q(pos % 100, 100)
    IN  IF pos % 100 = 0 THEN sorted[lo + 1]
        ELSE QAdd(sorted[lo + 1],
                  QMul(frac, QSub(sorted[lo + 2], sorted[lo + 1])))

Term(name, xs) == [k |-> name, of |-> xs]

MetricStats(xs) ==
    IF AllNum(xs)
    THEN [mean |-> Mean(xs),
          median |-> Percentile(xs, 50),
          std |-> Std(xs),
          min |-> QMin(xs),
          max |-> QMax(xs),
          percentiles |-> [p5 |-> Percentile(xs, 5),
                           p10 |-> Percentile(xs, 10),
                           p25 |-> Percentile(xs, 25),
                           p75 |-> Percentile(xs, 75),
                           p90 |-> Percentile(xs, 90),
                           p95 |-> Percentile(xs, 95)]]
    ELSE [mean |-> IF AllEqual(xs) THEN xs[1] ELSE Term("mean", xs),
          median |-> IF AllEqual(xs) THEN xs[1] ELSE Term("median", xs),
          std |-> Std(xs),
          min |-> IF AllEqual(xs) THEN xs[1] ELSE Term("min", xs),
          max |-> IF AllEqual(xs) THEN xs[1] ELSE Term("max", xs),
          percentiles |-> [p5 |-> IF AllEqual(xs) THEN xs[1] ELSE Term("p5", xs),
                           p10 |-> IF AllEqual(xs) THEN xs[1] ELSE Term("p10", xs),
                           p25 |-> IF AllEqual(xs) THEN xs[1] ELSE Term("p25", xs),
                           p75 |-> IF AllEqual(xs) THEN xs[1] ELSE Term("p75", xs),
                           p90 |-> IF AllEqual(xs) THEN xs[1] ELSE Term("p90", xs),
                           p95 |-> IF AllEqual(xs) THEN xs[1] ELSE Term("p95", xs)]]

Column(outcomes, field) == [i \in 1..Len(outcomes) |-> outcomes[i][field]]

\* the raw arrays of run_simulation, one entry per recorded trial
RawResults(outcomes) ==
    [annual_cash_flows |-> Column(outcomes, "annual_cash_flows"),
     cumulative_cash_flows |-> Column(outcomes, "cumulative_cash_flow"),
     total_returns |-> Column(outcomes, "total_return"),
     final_property_values |-> Column(outcomes, "final_property_value"),
     irr_values |-> Column(outcomes, "irr"),
     worst_year_cash_flows |-> Column(outcomes, "worst_year_cash_flow"),
     best_year_cash_flows |-> Column(outcomes, "best_year_cash_flow")]

StatMetrics ==
    {"cumulative_cash_flows", "total_returns", "final_property_values",
     "irr_values", "worst_year_cash_flows", "best_year_cash_flows"}

\* _calculate_statistics: np.min of an empty array raises ValueError
calculate_statistics(raw) ==
    IF raw["total_returns"] = << >> THEN Raise("ValueError")
    ELSE [m \in StatMetrics |-> MetricStats(raw[m])]

(***************************************************************************)
(* Risk metrics (_calculate_risk_metrics, _calculate_sharpe_ratio).        *)
(***************************************************************************)
CountNegative(xs) == Cardinality({i \in 1..Len(xs) : xs[i].n < 0})

SelectLe(xs, bound) ==
    LET idx == {i \in 1..Len(xs) : QLe(xs[i], bound)}
        F[k \in 0..Len(xs)] ==
            IF k = 0 THEN << >>
            ELSE IF k \in idx THEN Append(F[k - 1], xs[k]) ELSE F[k - 1]
    IN  F[Len(xs)]

RiskFreeRate == Q(3, 100)

calculate_sharpe_ratio(returns, risk_free_rate) ==
    LET excess_returns == [i \in 1..Len(returns) |-> QSub(returns[i], risk_free_rate)]
    IN  IF Std(excess_returns) # Zero
        THEN [k |-> "quot", num |-> Mean(excess_returns), den |-> Std(excess_returns)]
        ELSE Zero

\* risk metrics whose expected shortfall averages every trial
risk_metrics_shortfall_over_all(raw) ==
    LET cumulative_cf == raw["cumulative_cash_flows"]
        total_returns == raw["total_returns"]
    IN  [probability_of_loss |->
             Q(CountNegative(total_returns), Len(total_returns)),
         probability_of_negative_cash_flow |->
             Q(CountNegative(cumulative_cf), Len(cumulative_cf)),
         value_at_risk_5 |-> Percentile(total_returns, 5),
         value_at_risk_10 |-> Percentile(total_returns, 10),
         expected_shortfall_5 |-> Mean(total_returns),
         sharpe_ratio |-> calculate_sharpe_ratio(total_returns, RiskFreeRate),
         coefficient_of_variation |->
             IF ~QIsZero(Mean(total_returns))
             THEN IF Std(total_returns) = Zero THEN Zero
                  ELSE [k |-> "quot", num |-> Std(total_returns),
                        den |-> Mean(total_returns)]
             ELSE Zero]

calculate_risk_metrics(raw) ==
    LET cumulative_cf == raw["cumulative_cash_flows"]
        total_returns == raw["total_returns"]
        var5 == Percentile(total_returns, 5)
        tail == SelectLe(total_returns, var5)
    IN  [probability_of_loss |->
             Q(CountNegative(total_returns), Len(total_returns)),
         probability_of_negative_cash_flow |->
             Q(CountNegative(cumulative_cf), Len(cumulative_cf)),
         value_at_risk_5 |-> var5,
         value_at_risk_10 |-> Percentile(total_returns, 10),
         expected_shortfall_5 |-> IF tail = << >> THEN NaN ELSE Mean(tail),
         sharpe_ratio |-> calculate_sharpe_ratio(total_returns, RiskFreeRate),
         coefficient_of_variation |->
             IF ~QIsZero(Mean(total_returns))
             THEN IF Std(total_returns) = Zero THEN Zero
                  ELSE [k |-> "quot", num |-> Std(total_returns),
                        den |-> Mean(total_returns)]
             ELSE Zero]

(***************************************************************************)
(* Summary (_generate_summary).                                            *)
(***************************************************************************)
\* thresholds that belong to the earlier row
RiskLevelInclusive(prob_loss) ==
    IF QLe(prob_loss, Q(1, 10)) THEN "Low"
    ELSE IF QLe(prob_loss, Q(25, 100)) THEN "Moderate"
    ELSE IF QLe(prob_loss, Q(4, 10)) THEN "High"
    ELSE "Very High"

RiskLevel(prob_loss) ==
    IF QLt(prob_loss, Q(1, 10)) THEN "Low"
    ELSE IF QLt(prob_loss, Q(25, 100)) THEN "Moderate"
    ELSE IF QLt(prob_loss, Q(4, 10)) THEN "High"
    ELSE "Very High"

Recommendation(expected_return, prob_loss) ==
    IF QLt(I(50000), expected_return) /\ QLt(prob_loss, Q(2, 10))
    THEN "Strong Buy"
    ELSE IF QLt(I(20000), expected_return) /\ QLt(prob_loss, Q(3, 10))
    THEN "Buy"
    ELSE IF QLt(Zero, expected_return) /\ QLt(prob_loss, Q(4, 10))
    THEN "Hold"
    ELSE "Avoid"

\* a summary whose best and worst cases are taken from each other's percentile
summary_with_cases_swapped(statistics, risk_metrics) ==
    LET total_return_stats == statistics["total_returns"]
        prob_loss == risk_metrics.probability_of_loss
        expected_return == total_return_stats.mean
    IN  [risk_level |-> RiskLevel(prob_loss),
         recommendation |-> Recommendation(expected_return, prob_loss),
         expected_return |-> expected_return,
         probability_of_loss |-> prob_loss,
         best_case_scenario |-> total_return_stats.percentiles.p5,
         worst_case_scenario |-> total_return_stats.percentiles.p95,
         confidence_interval_80 |-> <<total_return_stats.percentiles.p10,
                                      total_return_stats.percentiles.p90>>]

generate_summary(statistics, risk_metrics) ==
    LET total_return_stats == statistics["total_returns"]
        prob_loss == risk_metrics.probability_of_loss
        expected_return == total_return_stats.mean
    IN  [risk_level |-> RiskLevel(prob_loss),
         recommendation |-> Recommendation(expected_return, prob_loss),
         expected_return |-> expected_return,
         probability_of_loss |-> prob_loss,
         best_case_scenario |-> total_return_stats.percentiles.p95,
         worst_case_scenario |-> total_return_stats.percentiles.p5,
         confidence_interval_80 |-> <<total_return_stats.percentiles.p10,
                                      total_return_stats.percentiles.p90>>]

(***************************************************************************)
(* State.                                                                  *)
(***************************************************************************)
VARIABLES
    props,      \* heap of profile dicts: object id -> dict
    callerRef,  \* the caller's profile mapping (property_data)
    calcRef,    \* calculator.property (0: no calculator)
    simRef,     \* simulator.property (0: no simulator)
    pars,       \* heap of params dicts: object id -> dict
    parRef,     \* simulator.params (0: no simulator)
    status,     \* "new", "ready" (constructed) or "failed" (constructor raised)
    given,      \* the simulation_params handed to the constructor
    rng,        \* state of the global random generator
    seed,       \* the seed the client uses for np.random.seed
    finds,      \* whether the IRR library finds a root where signs do not decide
    run,        \* per thread: the frame of run_simulation
    sens,       \* per thread: the frame of sensitivity_analysis
    scen,       \* per thread: the frame of scenario_analysis
    raised,     \* per thread: the exception the last operation raised, or "none"
    returned,   \* the results run_simulation returned to the client, latest last
    analysis,   \* the last get_comprehensive_analysis: the profile read, the outcome
    message,    \* what the last raise statement of the program said
    response,   \* the HTTP request being served and the response to it
    ops         \* number of operations the client has invoked

vars ==
    <<props, callerRef, calcRef, simRef, pars, parRef, status, given, rng, seed,
      finds, run, sens, scen, raised, returned, analysis, message, response,
      ops>>

Main == "main"
Other == "other"
Threads == {Main, Other}

MaxOps == 4

(***************************************************************************)
(* Heaps.                                                                  *)
(***************************************************************************)
NewId(heap) ==
    CHOOSE i \in 1..(Cardinality(DOMAIN heap) + 1) :
        /\ i \notin DOMAIN heap
        /\ \A j \in 1..(i - 1) : j \in DOMAIN heap

Restrict(heap, live) == [i \in (DOMAIN heap) \cap live |-> heap[i]]

LiveProps(calc, simp, sn) ==
    {callerRef, calc, simp} \cup {sn[t].original_property : t \in Threads}

LivePars(par, sc, ret) ==
    {par} \cup {sc[t].original_params : t \in Threads}
          \cup {ret[i].params_ref : i \in 1..Len(ret)}

(***************************************************************************)
(* Frames.                                                                 *)
(***************************************************************************)
NoRun ==
    [phase |-> "Configured", caller |-> "none", simulations |-> 0, years |-> 0,
     outcomes |-> << >>, in_trial |-> FALSE, year |-> 0,
     annual_cash_flows |-> << >>, draws |-> << >>, current_rent |-> Zero,
     current_property_value |-> Zero, initial_expenses |-> Zero,
     initial_property_value |-> Zero, monthly_payment |-> Zero,
     statistics |-> << >>, risk_metrics |-> << >>,
     start_rng |-> 0, start_profile |-> << >>, start_calc_profile |-> << >>,
     start_params |-> << >>, trials_started |-> 0, stale |-> FALSE]

NoSens ==
    [phase |-> "idle", variable |-> "", range_percent |-> Zero,
     original_value |-> Zero, k |-> 0, original_property |-> 0,
     scenarios |-> << >>, before |-> << >>, at_call |-> << >>]

NoScen ==
    [phase |-> "idle", todo |-> << >>, original_params |-> 0,
     before |-> << >>, results |-> << >>]

RunEnded(t) == run[t].phase \in {"Configured", "Done", "Aborted"}

Idle(t) == RunEnded(t) /\ sens[t].phase = "idle" /\ scen[t].phase = "idle"

KeepLast(seq, x) == IF Len(seq) >= 2 THEN <<seq[Len(seq)], x>> ELSE Append(seq, x)

(***************************************************************************)
(* MonteCarloSimulator.__init__ (and FinancialCalculator.__init__): the    *)
(* client constructs a simulator over its profile with one of the          *)
(* configurations Cfgs; adapted tells whether the profile is an object     *)
(* with to_dict (the calculator then holds a fresh dict) or a plain        *)
(* mapping (the calculator holds the caller's dict itself).                *)
(***************************************************************************)
Construct(t, Cfgs, Adapted) ==
    /\ Idle(t)
    /\ ops < MaxOps
    /\ \E params \in Cfgs, adapted \in Adapted :
        LET data == props[callerRef]
            id == IF adapted THEN NewId(props) ELSE callerRef
            validated_params == ValidateParams(params)
            ok == ValidateInputs(data) = "ok" /\ ~IsErr(validated_params)
        IN  /\ given' = params
            /\ status' = IF ok THEN "ready" ELSE "failed"
            /\ calcRef' = IF ok THEN id ELSE 0
            /\ simRef' = IF ok THEN id ELSE 0
            /\ parRef' = IF ok THEN NewId(pars) ELSE 0
            /\ raised' = [raised EXCEPT ![t] = IF ok THEN "none" ELSE "ValueError"]
            /\ message' = IF ValidateInputs(data) # "ok" THEN MissingFieldMessage(data)
                          ELSE IF ~ok THEN RangeMessage(params)
                          ELSE message
            /\ props' = Restrict((id :> data) @@ props,
                                 LiveProps(calcRef', simRef', sens))
            /\ pars' = IF ok
                       THEN Restrict((parRef' :> validated_params) @@ pars,
                                     LivePars(parRef', scen, returned))
                       ELSE Restrict(pars, LivePars(0, scen, returned))
    /\ run' = [run EXCEPT ![t] = NoRun]
    /\ ops' = ops + 1
    /\ UNCHANGED <<response, analysis, callerRef, rng, seed, finds, sens, scen, returned>>

\* np.random.seed(seed), called by the client
Reseed(t) ==
    /\ Idle(t)
    /\ ops < MaxOps
    /\ rng # seed
    /\ rng' = seed
    /\ ops' = ops + 1
    /\ UNCHANGED <<response, message, analysis, props, callerRef, calcRef, simRef, pars, parRef, status, given,
                   seed, finds, run, sens, scen, raised, returned>>

(***************************************************************************)
(* run_simulation.                                                         *)
(***************************************************************************)
\* a loop that runs once more than range(n)
LoopDoneLate(i, n) == i > n

\* for i in range(n): the loop has run out once i reaches n
LoopDone(i, n) == i >= n

\* An exception leaves run_simulation, and scenario_analysis when that is
\* the caller (it has no handler and does not restore params).
Abort(t, err) ==
    /\ run' = [run EXCEPT ![t].phase = "Aborted", ![t].in_trial = FALSE]
    /\ raised' = [raised EXCEPT ![t] = err]
    /\ scen' = [scen EXCEPT ![t] = NoScen]
    /\ pars' = Restrict(pars, LivePars(parRef, scen', returned))

\* lines 64-76: read simulations and years, allocate the arrays
Frame(caller, P) ==
    [NoRun EXCEPT
        !.phase = IF LoopDone(0, P["simulations"]) THEN "Aggregating" ELSE "Simulating",
        !.caller = caller,
        !.simulations = P["simulations"],
        !.years = P["years"],
        !.start_rng = rng,
        !.start_profile = props[simRef],
        !.start_calc_profile = props[calcRef],
        !.start_params = P]

\* a run that appends to the arrays of the thread's previous run instead of
\* allocating its own
StartRunKeepingTrials(t, caller) ==
    run' = [run EXCEPT ![t] =
               [Frame(caller, pars[parRef]) EXCEPT !.outcomes = run[t].outcomes]]

StartRun(t, caller) == run' = [run EXCEPT ![t] = Frame(caller, pars[parRef])]

RunSimulation(t) ==
    /\ Idle(t)
    /\ status = "ready"
    /\ ops < MaxOps
    /\ StartRun(t, "user")
    /\ raised' = [raised EXCEPT ![t] = "none"]
    /\ ops' = ops + 1
    /\ UNCHANGED <<response, message, analysis, props, callerRef, calcRef, simRef, pars, parRef, status, given,
                   rng, seed, finds, sens, scen, returned>>

\* what a trial reads of the two profile dicts
ProfileReads(simp, calcp) ==
    <<simp["monthly_rent"], simp["purchase_price"], TotalInvestment(simp),
      calculate_total_monthly_expenses(calcp), calculate_monthly_payment(calcp)>>

\* what a year of a trial reads of the params dict
ParamReads(P) ==
    <<P["rent_growth_range"], P["expense_volatility"], P["vacancy_rate_range"],
      P["appreciation_range"], P["major_repair_probability"],
      P["major_repair_cost_range"]>>

\* lines 109-116: the locals of a trial
TrialBegin(t) ==
    /\ run[t].phase = "Simulating"
    /\ ~run[t].in_trial
    /\ \E monthly_payment \in {calculate_monthly_payment(props[calcRef])} :
       LET simp == props[simRef]
           calcp == props[calcRef]
       IN  IF IsErr(monthly_payment)
           THEN Abort(t, monthly_payment.err)
           ELSE /\ run' = [run EXCEPT
                       ![t].in_trial = TRUE,
                       ![t].year = 0,
                       ![t].annual_cash_flows = << >>,
                       ![t].draws = << >>,
                       ![t].current_rent = simp["monthly_rent"],
                       ![t].initial_expenses = calculate_total_monthly_expenses(calcp),
                       ![t].initial_property_value = simp["purchase_price"],
                       ![t].current_property_value = simp["purchase_price"],
                       ![t].monthly_payment = monthly_payment,
                       ![t].trials_started = @ + 1,
                       ![t].stale = @ \/ ProfileReads(simp, calcp) #
                           ProfileReads(run[t].start_profile,
                                        run[t].start_calc_profile)]
                /\ UNCHANGED <<raised, scen, pars>>
    /\ UNCHANGED <<response, message, analysis, props, callerRef, calcRef, simRef, parRef, status, given, rng,
                   seed, finds, sens, returned, ops>>

\* lines 118-147: one year
YearStep(t) ==
    /\ run[t].phase = "Simulating"
    /\ run[t].in_trial
    /\ ~LoopDone(run[t].year, run[t].years)
    /\ LET P == pars[parRef]
           draws == YearDraws(P, rng)
           current_rent == QMul(run[t].current_rent, QAdd(One, draws.rent_growth))
       IN  /\ rng' = draws.rng
           /\ run' = [run EXCEPT
                  ![t].year = @ + 1,
                  ![t].current_rent = current_rent,
                  ![t].draws = Append(@, draws),
                  ![t].annual_cash_flows =
                      Append(@, YearCashFlow(draws, current_rent,
                                             run[t].initial_expenses,
                                             run[t].monthly_payment)),
                  ![t].current_property_value =
                      QMul(@, QAdd(One, draws.appreciation_rate)),
                  ![t].stale = @ \/ ParamReads(P) # ParamReads(run[t].start_params)]
    /\ UNCHANGED <<response, message, analysis, props, callerRef, calcRef, simRef, pars, parRef, status, given,
                   seed, finds, sens, scen, raised, returned, ops>>

\* lines 149-172 and 82-88: the trial's outcome, stored in the arrays; a
\* complex IRR cannot be stored in the float array (TypeError).
TrialEnd(t) ==
    /\ run[t].phase = "Simulating"
    /\ run[t].in_trial
    /\ LoopDone(run[t].year, run[t].years)
    /\ \E outcome \in {TrialOutcome(props[simRef], run[t].annual_cash_flows,
                                      run[t].current_property_value,
                                      run[t].initial_property_value, finds)} :
       LET stored == Append(run[t].outcomes, outcome)
       IN  IF IsErr(outcome) THEN Abort(t, outcome.err)
           ELSE IF ~IsNum(outcome.irr) /\ outcome.irr.k = "complex"
           THEN Abort(t, "TypeError")
           ELSE /\ run' = [run EXCEPT
                       ![t].in_trial = FALSE,
                       ![t].outcomes = stored,
                       ![t].phase = IF LoopDone(Len(stored), run[t].simulations)
                                    THEN "Aggregating" ELSE "Simulating"]
                /\ UNCHANGED <<raised, scen, pars>>
    /\ UNCHANGED <<response, message, analysis, props, callerRef, calcRef, simRef, parRef, status, given, rng,
                   seed, finds, sens, returned, ops>>

\* lines 91-94: statistics and risk metrics of the recorded trials
Aggregate(t) ==
    /\ run[t].phase = "Aggregating"
    /\ \E raw \in {RawResults(run[t].outcomes)} :
       \E statistics \in {calculate_statistics(raw)} :
           IF IsErr(statistics) THEN Abort(t, statistics.err)
           ELSE /\ run' = [run EXCEPT
                       ![t].phase = "Summarizing",
                       ![t].statistics = statistics,
                       ![t].risk_metrics = calculate_risk_metrics(raw)]
                /\ UNCHANGED <<raised, scen, pars>>
    /\ UNCHANGED <<response, message, analysis, props, callerRef, calcRef, simRef, parRef, status, given, rng,
                   seed, finds, sens, returned, ops>>

\* lines 96-103: the result; its simulation_parameters is the dict object
\* simulator.params refers to at that time
Result(t) ==
    [simulation_parameters |-> pars[parRef],
     params_ref |-> parRef,
     raw_results |-> RawResults(run[t].outcomes),
     statistics |-> run[t].statistics,
     risk_metrics |-> run[t].risk_metrics,
     summary |-> generate_summary(run[t].statistics, run[t].risk_metrics),
     simulations |-> run[t].simulations,
     years |-> run[t].years,
     irr_failures |-> Cardinality({i \in 1..Len(run[t].outcomes) :
                                      run[t].outcomes[i].irr_failed}),
     start_rng |-> run[t].start_rng,
     start_profile |-> run[t].start_profile,
     start_calc_profile |-> run[t].start_calc_profile,
     start_params |-> run[t].start_params]

Summarize(t) ==
    /\ run[t].phase = "Summarizing"
    /\ run' = [run EXCEPT ![t].phase = "Done"]
    /\ IF run[t].caller = "user"
       THEN /\ returned' = KeepLast(returned, Result(t))
            /\ scen' = scen
       ELSE /\ returned' = returned
            /\ scen' = [scen EXCEPT
                   ![t].phase = "collect",
                   ![t].results = Append(@,
                       [expected_return |-> run[t].statistics["total_returns"].mean,
                        probability_of_loss |-> run[t].risk_metrics.probability_of_loss,
                        value_at_risk_5 |-> run[t].risk_metrics.value_at_risk_5])]
    /\ pars' = Restrict(pars, LivePars(parRef, scen', returned'))
    /\ UNCHANGED <<response, message, analysis, props, callerRef, calcRef, simRef, parRef, status, given, rng,
                   seed, finds, sens, raised, ops>>

(***************************************************************************)
(* FinancialCalculator.sensitivity_analysis.                               *)
(***************************************************************************)
\* int(x): truncation toward zero
Trunc(x) == IF x.n >= 0 THEN x.n \div x.d ELSE -((-x.n) \div x.d)

Multiplier(k, range_percent) ==
    IF k = 1 THEN QSub(One, range_percent)
    ELSE IF k = 2 THEN One
    ELSE QAdd(One, range_percent)

\* lines 269-273: the field is read; an absent or falsy value raises ValueError
SensBegin(t, Inputs) ==
    /\ Idle(t)
    /\ calcRef # 0
    /\ ops < MaxOps
    /\ \E input \in Inputs :
        LET variable == input[1]
            range_percent == input[2]
            p == props[calcRef]
            found == variable \in DOMAIN p /\ Truthy(variable, p[variable])
        IN  /\ sens' = [sens EXCEPT ![t] =
                   IF found
                   THEN [NoSens EXCEPT !.phase = "iter", !.variable = variable,
                                       !.range_percent = range_percent,
                                       !.original_value = p[variable], !.k = 1,
                                       !.before = props[callerRef],
                                       !.at_call = p]
                   ELSE [NoSens EXCEPT !.variable = variable]]
            /\ raised' = [raised EXCEPT ![t] = IF found THEN "none" ELSE "ValueError"]
            /\ message' = IF found THEN message
                          ELSE [text |-> "not found in property data", about |-> variable]
    /\ ops' = ops + 1
    /\ UNCHANGED <<response, analysis, props, callerRef, calcRef, simRef, pars, parRef, status, given,
                   rng, seed, finds, run, scen, returned>>

\* lines 278-279: copy the dict self.property refers to, then assign the
\* scaled value into the dict self.property refers to; float() of a dict
\* raises TypeError
SensMutate(t) ==
    /\ sens[t].phase = "iter"
    /\ LET copy == NewId(props)
           variable == sens[t].variable
           value == QMul(sens[t].original_value,
                         Multiplier(sens[t].k, sens[t].range_percent))
       IN  IF variable = "monthly_expenses"
           THEN /\ sens' = [sens EXCEPT ![t] = NoSens]
                /\ raised' = [raised EXCEPT ![t] = "TypeError"]
                /\ props' = props
           ELSE /\ sens' = [sens EXCEPT ![t].phase = "mutated",
                                        ![t].original_property = copy]
                /\ raised' = raised
                /\ props' = (copy :> props[calcRef]) @@
                            [props EXCEPT ![calcRef] =
                                (variable :> value) @@ props[calcRef]]
    /\ UNCHANGED <<response, message, analysis, callerRef, calcRef, simRef, pars, parRef, status, given, rng,
                   seed, finds, run, scen, returned, ops>>

\* lines 282-289: the three metrics of the modified dict, then self.property
\* is bound to the copy; an exception in a metric leaves without the rebinding
SensRestore(t) ==
    /\ sens[t].phase = "mutated"
    /\ \E entry \in {[cash_flow |-> calculate_monthly_cash_flow(props[calcRef]),
                       cap_rate |-> calculate_cap_rate(props[calcRef]),
                       coc_return |->
                           calculate_cash_on_cash_return(props[calcRef])]} :
       LET multiplier == Multiplier(sens[t].k, sens[t].range_percent)
           key == Trunc(QMul(multiplier, I(100)))
           failed == IF IsErr(entry.cash_flow) THEN entry.cash_flow
                     ELSE IF IsErr(entry.cap_rate) THEN entry.cap_rate
                     ELSE entry.coc_return
       IN  IF IsErr(failed)
           THEN /\ sens' = [sens EXCEPT ![t] = NoSens]
                /\ raised' = [raised EXCEPT ![t] = failed.err]
                /\ calcRef' = calcRef
           ELSE /\ sens' = [sens EXCEPT
                       ![t].phase = IF sens[t].k = 3 THEN "idle" ELSE "iter",
                       ![t].k = @ + 1,
                       ![t].original_property = 0,
                       ![t].scenarios = (key :> entry) @@ @]
                /\ raised' = raised
                /\ calcRef' = sens[t].original_property
    /\ props' = Restrict(props, LiveProps(calcRef', simRef, sens'))
    /\ UNCHANGED <<response, message, analysis, callerRef, simRef, pars, parRef, status, given, rng, seed,
                   finds, run, scen, returned, ops>>

(***************************************************************************)
(* FinancialCalculator.get_comprehensive_analysis, on the calculator of    *)
(* the simulator.                                                          *)
(***************************************************************************)
\* an analysis that stores the loan-to-value ratio it computed in the profile
AnalyzeCachingLoanToValue(t) ==
    /\ Idle(t)
    /\ calcRef # 0
    /\ ops < MaxOps
    /\ \E result \in {get_comprehensive_analysis(props[calcRef])} :
        /\ analysis' = [of |-> props[calcRef], result |-> result]
        /\ raised' = [raised EXCEPT ![t] = IF IsErr(result) THEN result.err
                                           ELSE "none"]
        /\ message' = IF IsErr(result)
                      THEN [text |-> "Error calculating comprehensive analysis",
                            about |-> ""]
                      ELSE message
    /\ props' = [props EXCEPT ![calcRef] =
                     ("loan_to_value_ratio" :> One) @@ @]
    /\ ops' = ops + 1
    /\ UNCHANGED <<response, callerRef, calcRef, simRef, pars, parRef, status, given,
                   rng, seed, finds, run, sens, scen, returned>>

Analyze(t) ==
    /\ Idle(t)
    /\ calcRef # 0
    /\ ops < MaxOps
    /\ \E result \in {get_comprehensive_analysis(props[calcRef])} :
        /\ analysis' = [of |-> props[calcRef], result |-> result]
        /\ raised' = [raised EXCEPT ![t] = IF IsErr(result) THEN result.err
                                           ELSE "none"]
        /\ message' = IF IsErr(result)
                      THEN [text |-> "Error calculating comprehensive analysis",
                            about |-> ""]
                      ELSE message
    /\ ops' = ops + 1
    /\ UNCHANGED <<response, props, callerRef, calcRef, simRef, pars, parRef, status, given,
                   rng, seed, finds, run, sens, scen, returned>>

(***************************************************************************)
(* MonteCarloSimulator.scenario_analysis.                                  *)
(***************************************************************************)
Min(a, b) == IF a < b THEN a ELSE b

ScenarioBegin(t, Scenarios) ==
    /\ Idle(t)
    /\ status = "ready"
    /\ ops < MaxOps
    /\ \E scenarios \in Scenarios :
        scen' = [scen EXCEPT ![t] =
                    [NoScen EXCEPT !.phase = "loop", !.todo = scenarios,
                                   !.before = pars[parRef]]]
    /\ raised' = [raised EXCEPT ![t] = "none"]
    /\ ops' = ops + 1
    /\ UNCHANGED <<response, message, analysis, props, callerRef, calcRef, simRef, pars, parRef, status, given,
                   rng, seed, finds, run, sens, returned>>

\* lines 301-310: copy params, update the dict self.params refers to in
\* place, bind self.params to a second copy with the capped simulations, and
\* enter run_simulation
ScenarioApply(t) ==
    /\ scen[t].phase = "loop"
    /\ LET original == NewId(pars)
           updated == Merge(pars[parRef], scen[t].todo[1])
           heap1 == (original :> pars[parRef]) @@ [pars EXCEPT ![parRef] = updated]
           temp == NewId(heap1)
           temp_params == [updated EXCEPT
                              !["simulations"] = Min(1000, updated["simulations"])]
       IN  /\ parRef' = temp
           /\ scen' = [scen EXCEPT ![t].phase = "running",
                                   ![t].original_params = original]
           /\ pars' = Restrict((temp :> temp_params) @@ heap1,
                               LivePars(temp, scen', returned))
           /\ run' = [run EXCEPT ![t] = Frame("scenario", temp_params)]
    /\ UNCHANGED <<response, message, analysis, props, callerRef, calcRef, simRef, status, given, rng, seed,
                   finds, sens, raised, returned, ops>>

\* lines 311-318: keep three values of the result, restore self.params
ScenarioCollect(t) ==
    /\ scen[t].phase = "collect"
    /\ parRef' = scen[t].original_params
    /\ scen' = [scen EXCEPT
           ![t].phase = IF Len(scen[t].todo) = 1 THEN "idle" ELSE "loop",
           ![t].todo = Tail(@),
           ![t].original_params = 0]
    /\ pars' = Restrict(pars, LivePars(parRef', scen', returned))
    /\ UNCHANGED <<response, message, analysis, props, callerRef, calcRef, simRef, status, given, rng, seed,
                   finds, run, sens, raised, returned, ops>>

(***************************************************************************)
(* Inputs of the model: profiles and configurations.  Amounts are small    *)
(* so that the exact arithmetic stays within TLC's integers.               *)
(***************************************************************************)
Profile(price, down, loan, rate, term, rent, expenses) ==
    [purchase_price |-> I(price), down_payment |-> I(down), loan_amount |-> I(loan),
     interest_rate |-> I(rate), loan_term_years |-> I(term), monthly_rent |-> I(rent),
     monthly_expenses |-> expenses]

Expenses(maintenance, closing) ==
    [maintenance |-> I(maintenance), closing_costs |-> I(closing)]

\* rent 12 against a payment of 8 and expenses of 2: a yearly surplus
ProfitProfile == Profile(100, 20, 96, 0, 1, 12, Expenses(2, 4))
\* rent 6 against a payment of 8 and expenses of 2: a yearly deficit
LossProfile == Profile(100, 20, 96, 0, 1, 6, Expenses(2, 4))
\* nothing invested: down_payment 0 and no closing costs; interest is charged
NoCashProfile == Profile(100, 0, 8, 1200, 1, 12, [insurance |-> I(1)])

RunProfiles == {ProfitProfile, LossProfile, NoCashProfile}

Config(simulations, years, rent, volatility, vacancy, appreciation, probability, cost) ==
    [simulations |-> simulations, years |-> years, rent_growth_range |-> rent,
     expense_volatility |-> volatility, vacancy_rate_range |-> vacancy,
     appreciation_range |-> appreciation, major_repair_probability |-> probability,
     major_repair_cost_range |-> cost]

Sizes == (0..MaxSims) \X (0..MaxYears)

\* every range a proper interval
SpreadCfgs ==
    {Config(z[1], z[2], <<Zero, Q(1, 2)>>, v, <<Zero, Q(1, 2)>>,
            <<Q(-1, 2), Q(1, 2)>>, pr, <<I(4), I(12)>>) :
        z \in Sizes, v \in {Zero, Q(1, 2)}, pr \in {Zero, Q(1, 2), One}}

\* every range collapsed to a point, no repair event
PointCfgs ==
    {Config(z[1], z[2], <<Q(1, 4), Q(1, 4)>>, v, <<Q(1, 4), Q(1, 4)>>,
            <<a, a>>, Zero, <<I(4), I(4)>>) :
        z \in Sizes, v \in {Zero, Q(1, 2)}, a \in {Q(-1, 4), Q(1, 4)}}

\* min > max in every range
InvertedCfgs ==
    {Config(z[1], z[2], <<Q(1, 2), Zero>>, Zero, <<Q(1, 2), Zero>>,
            <<Q(1, 2), Q(-1, 2)>>, Q(1, 2), <<I(12), I(4)>>) : z \in Sizes}

\* a range that is not a pair
ShortCfgs ==
    {Config(1, 1, <<Q(1, 4)>>, Zero, <<Zero, Q(1, 2)>>, <<Zero, Q(1, 2)>>,
            Zero, <<I(4), I(12)>>),
     Config(1, 1, <<Zero, Q(1, 2)>>, Zero, <<Q(1, 4)>>, <<Zero, Q(1, 2)>>,
            Zero, <<I(4), I(12)>>),
     Config(1, 1, <<Zero, Q(1, 2)>>, Zero, <<Zero, Q(1, 2)>>, <<Q(1, 4)>>,
            Zero, <<I(4), I(12)>>),
     Config(1, 1, <<Zero, Q(1, 2)>>, Zero, <<Zero, Q(1, 2)>>, <<Zero, Q(1, 2)>>,
            One, <<I(4)>>)}

RunCfgs == SpreadCfgs \cup PointCfgs \cup InvertedCfgs \cup ShortCfgs

Seeds == {0, 2, 5, 7}

InitWith(profiles, seeds, oracle) ==
    /\ \E profile \in profiles : props = (1 :> profile)
    /\ callerRef = 1
    /\ calcRef = 0
    /\ simRef = 0
    /\ pars = << >>
    /\ parRef = 0
    /\ status = "new"
    /\ given = << >>
    /\ rng \in seeds
    /\ seed = rng
    /\ finds \in oracle
    /\ run = [t \in Threads |-> NoRun]
    /\ sens = [t \in Threads |-> NoSens]
    /\ scen = [t \in Threads |-> NoScen]
    /\ raised = [t \in Threads |-> "none"]
    /\ returned = << >>
    /\ analysis = << >>
    /\ message = NoMessage
    /\ response = NoResponse
    /\ ops = 0

(***************************************************************************)
(* SpecRun: one client constructs a simulator over a plain mapping and     *)
(* runs it, reseeding the generator between runs.                          *)
(***************************************************************************)
ConstructOnce == status = "new" /\ Construct(Main, RunCfgs, {FALSE})

InitRun == InitWith(RunProfiles, Seeds, BOOLEAN)

NextRun ==
    \/ ConstructOnce
    \/ Reseed(Main)
    \/ RunSimulation(Main)
    \/ TrialBegin(Main)
    \/ YearStep(Main)
    \/ TrialEnd(Main)
    \/ Aggregate(Main)
    \/ Summarize(Main)

SpecRun == InitRun /\ [][NextRun]_vars

(***************************************************************************)
(* Spec: one client works on one simulator, over a plain mapping or an     *)
(* object with to_dict, with every operation of the two classes.           *)
(***************************************************************************)
OpsProfiles == {ProfitProfile, LossProfile}

OpsCfgs ==
    {Config(z[1], z[2], <<Zero, Q(1, 2)>>, Zero, <<Zero, Q(1, 2)>>,
            <<Q(-1, 2), Q(1, 2)>>, pr, <<I(4), I(12)>>) :
        z \in {<<1, 1>>, <<MaxSims, 1>>, <<1, MaxYears>>}, pr \in {Zero, One}}

\* fields of the profile the client varies: present ones, a falsy one
\* (interest_rate is 0 in OpsProfiles), the expense dict, an absent one
SensInputs ==
    {<<"monthly_rent", Q(1, 5)>>, <<"down_payment", One>>,
     <<"loan_term_years", One>>, <<"interest_rate", Q(1, 5)>>,
     <<"monthly_expenses", Q(1, 5)>>, <<"square_footage", Q(1, 5)>>}

\* the override lists the client hands to scenario_analysis
ScenarioLists ==
    {<<[major_repair_probability |-> One]>>,
     <<[years |-> 1], [appreciation_range |-> <<Q(1, 4), Q(1, 4)>>]>>}

ConstructOps == status = "new" /\ Construct(Main, OpsCfgs, BOOLEAN)

Init == InitWith(OpsProfiles, {0}, {TRUE})

Next ==
    \/ ConstructOps
    \/ RunSimulation(Main)
    \/ TrialBegin(Main)
    \/ YearStep(Main)
    \/ TrialEnd(Main)
    \/ Aggregate(Main)
    \/ Summarize(Main)
    \/ SensBegin(Main, SensInputs)
    \/ SensMutate(Main)
    \/ SensRestore(Main)
    \/ ScenarioBegin(Main, ScenarioLists)
    \/ ScenarioApply(Main)
    \/ ScenarioCollect(Main)

Spec == Init /\ [][Next]_vars

(***************************************************************************)
(* Properties of sensitivity_analysis (Spec).                              *)
(***************************************************************************)
SensReturned(t) == sens[t].phase = "idle" /\ sens[t].k = 4

\* C1: once sensitivity_analysis has returned, the caller's profile mapping
\* holds the field values it held when the call was made.
C1_SensitivityRestoresProfile ==
    \A t \in Threads : SensReturned(t) => props[callerRef] = sens[t].before

(***************************************************************************)
(* Properties of construction and of run_simulation (SpecRun).             *)
(***************************************************************************)
\* the IRR library call of the trial the frame of t holds failed
FrameIrrFailed(t) ==
    /\ run[t].annual_cash_flows # << >>
    /\ IrrFailed(run[t].annual_cash_flows, TotalInvestment(props[simRef]),
                 QSub(run[t].current_property_value, run[t].initial_property_value),
                 finds)

\* the fallback value of the specification: a real number
IsRealFallback(v) == IsNum(v) \/ v.k = "root"

\* C2: a run with years >= 1 whose trial's IRR computation failed is not
\* aborted, the trial's IRR is a real fallback value, and a returned result
\* holds all S trials.
C2_IrrFailureNeverAborts ==
    /\ \A t \in Threads :
           (run[t].years >= 1 /\ FrameIrrFailed(t)) =>
               /\ run[t].phase # "Aborted"
               /\ IsRealFallback(
                      calculate_irr(run[t].annual_cash_flows,
                                    TotalInvestment(props[simRef]),
                                    QSub(run[t].current_property_value,
                                         run[t].initial_property_value), finds))
    /\ \A i \in 1..Len(returned) :
           Len(returned[i].raw_results.irr_values) = returned[i].simulations

RangeKeys ==
    {"rent_growth_range", "vacancy_rate_range", "appreciation_range",
     "major_repair_cost_range"}

\* a range that is not a pair, or whose minimum exceeds its maximum
BadRange(params) ==
    \E k \in RangeKeys \cap DOMAIN params :
        \/ Len(params[k]) # 2
        \/ QLt(params[k][2], params[k][1])

\* C3: a constructor call with a range that is not a pair or has min > max
\* fails.
C3_BadRangeRejected == (status # "new" /\ BadRange(given)) => status = "failed"

\* C4: a constructor call with simulations = 0 or years = 0 fails.
C4_ZeroSizeRejected ==
    (status # "new" /\ (given["simulations"] = 0 \/ given["years"] = 0))
        => status = "failed"

SameStart(a, b) ==
    /\ a.start_rng = b.start_rng
    /\ a.start_profile = b.start_profile
    /\ a.start_calc_profile = b.start_calc_profile
    /\ a.start_params = b.start_params

\* C7: two runs that start from the same generator state, the same profile
\* and the same configuration return the same raw results, statistics, risk
\* metrics and summary.
C7_SameSeedSameResult ==
    \A i, j \in 1..Len(returned) :
        SameStart(returned[i], returned[j]) =>
            /\ returned[i].raw_results = returned[j].raw_results
            /\ returned[i].statistics = returned[j].statistics
            /\ returned[i].risk_metrics = returned[j].risk_metrics
            /\ returned[i].summary = returned[j].summary

\* two returned runs of several trials with the same start, whose trials differ
C7_Witness ==
    /\ Len(returned) = 2
    /\ SameStart(returned[1], returned[2])
    /\ returned[1].simulations >= 2
    /\ ~AllEqual(returned[1].raw_results.total_returns)

RawArrays ==
    {"annual_cash_flows", "cumulative_cash_flows", "total_returns",
     "final_property_values", "irr_values", "worst_year_cash_flows",
     "best_year_cash_flows"}

\* C8: a result for S >= 1 simulations of Y >= 1 years has S entries in every
\* raw array, Y yearly cash flows in every trial, and a probability of loss
\* between 0 and 1.
C8_ResultShape ==
    \A i \in 1..Len(returned) :
        LET r == returned[i]
        IN  (r.simulations >= 1 /\ r.years >= 1) =>
                /\ \A a \in RawArrays : Len(r.raw_results[a]) = r.simulations
                /\ \A k \in 1..Len(r.raw_results.annual_cash_flows) :
                       Len(r.raw_results.annual_cash_flows[k]) = r.years
                /\ QLe(Zero, r.risk_metrics.probability_of_loss)
                /\ QLe(r.risk_metrics.probability_of_loss, One)

\* a result of two trials of two years, one of them a loss
C8_Witness ==
    \E i \in 1..Len(returned) :
        /\ returned[i].simulations = 2
        /\ returned[i].years = 2
        /\ returned[i].risk_metrics.probability_of_loss = Q(1, 2)

\* every range a single point and no repair event
Collapsed(params) ==
    /\ \A k \in RangeKeys : Len(params[k]) = 2 /\ params[k][1] = params[k][2]
    /\ params["major_repair_probability"] = Zero

\* C9: with every range collapsed and no repair event, a run of S >= 1 trials
\* of Y >= 1 years is not aborted, its trials are equal, and every metric has
\* standard deviation 0 and a numeric mean.
C9_CollapsedRunIsConstant ==
    /\ \A t \in Threads :
           (run[t].simulations >= 1 /\ run[t].years >= 1
                /\ Collapsed(run[t].start_params)) => run[t].phase # "Aborted"
    /\ \A i \in 1..Len(returned) :
           Collapsed(returned[i].start_params) =>
               /\ \A a \in RawArrays : AllEqual(returned[i].raw_results[a])
               /\ \A m \in StatMetrics :
                      /\ returned[i].statistics[m].std = Zero
                      /\ IsNum(returned[i].statistics[m].mean)

(***************************************************************************)
(* SpecMetrics: the metrics of the calculator over profiles with zero      *)
(* fields, and the risk metrics of runs whose returns are all equal.       *)
(***************************************************************************)
\* loan_term_years is positive; every other field is zero or not
MetricProfiles ==
    {Profile(price, down, loan, rate, 1, rent, expenses) :
        price \in {0, 100}, down \in {0, 20}, loan \in {0, 96},
        rate \in {0, 1200}, rent \in {0, 12},
        expenses \in {Expenses(2, 4), [insurance |-> Zero]}}

\* one year; ranges collapsed (appreciation 9/100 makes the total return of
\* ProfitProfile zero) or spread
MetricCfgs ==
    {Config(n, 1, <<Q(1, 4), Q(1, 4)>>, Zero, <<Q(1, 4), Q(1, 4)>>,
            <<a, a>>, Zero, <<I(4), I(4)>>) :
        n \in 1..MaxSims, a \in {Q(9, 100), Q(1, 4)}}
    \cup {Config(MaxSims, 1, <<Zero, Q(1, 2)>>, Zero, <<Zero, Q(1, 2)>>,
                 <<Q(-1, 2), Q(1, 2)>>, Zero, <<I(4), I(12)>>)}

ConstructMetrics == status = "new" /\ Construct(Main, MetricCfgs, BOOLEAN)

InitMetrics == InitWith(MetricProfiles, {0}, {TRUE})

NextMetrics ==
    \/ ConstructMetrics
    \/ Analyze(Main)
    \/ RunSimulation(Main)
    \/ TrialBegin(Main)
    \/ YearStep(Main)
    \/ TrialEnd(Main)
    \/ Aggregate(Main)
    \/ Summarize(Main)

SpecMetrics == InitMetrics /\ [][NextMetrics]_vars

\* C10: a guarded ratio whose denominator is 0 is exactly 0 and nothing is
\* raised: cap_rate (purchase_price), dscr (annual debt service),
\* cash_on_cash_return (down_payment + closing_costs), break_even_ratio
\* (monthly_rent), gross_rent_multiplier (annual rent), sharpe_ratio
\* (deviation of the excess returns), coefficient_of_variation (mean of
\* total_returns).
C10_GuardedRatiosAreZero ==
    /\ analysis # << >> =>
           LET p == analysis.of
               r == analysis.result
           IN  /\ ~IsErr(r)
               /\ QIsZero(p["purchase_price"]) =>
                      r.profitability_ratios.cap_rate = Zero
               /\ QIsZero(QMul(r.cash_flow_analysis.monthly_payment, I(12))) =>
                      r.risk_metrics.dscr = Zero
               /\ QIsZero(TotalInvestment(p)) =>
                      r.profitability_ratios.cash_on_cash_return = Zero
               /\ QIsZero(p["monthly_rent"]) =>
                      r.risk_metrics.break_even_ratio = Zero
               /\ QIsZero(QMul(p["monthly_rent"], I(12))) =>
                      r.profitability_ratios.gross_rent_multiplier = Zero
    /\ \A i \in 1..Len(returned) :
           LET total_returns == returned[i].raw_results.total_returns
           IN  /\ AllEqual(total_returns) =>
                      returned[i].risk_metrics.sharpe_ratio = Zero
               /\ QIsZero(Mean(total_returns)) =>
                      returned[i].risk_metrics.coefficient_of_variation = Zero

\* the analysis of a profile with every denominator zero, beside a result of
\* several equal trials with total return zero
C10_Witness ==
    /\ analysis # << >>
    /\ ~IsErr(analysis.result)
    /\ QIsZero(analysis.of["purchase_price"])
    /\ QIsZero(analysis.of["monthly_rent"])
    /\ QIsZero(TotalInvestment(analysis.of))
    /\ QIsZero(analysis.result.cash_flow_analysis.monthly_payment)
    /\ \E i \in 1..Len(returned) :
           /\ returned[i].simulations >= 2
           /\ AllEqual(returned[i].raw_results.total_returns)
           /\ QIsZero(Mean(returned[i].raw_results.total_returns))

(***************************************************************************)
(* SpecMono: a client holding a simulator runs it, reseeds the generator,  *)
(* constructs a simulator that differs in major_repair_probability only,   *)
(* and runs that one.                                                      *)
(***************************************************************************)
Probabilities == {Zero, Q(1, 2), One}

MonoCfgs ==
    {Config(z[1], z[2], <<Zero, Q(1, 2)>>, Zero, <<Zero, Q(1, 2)>>,
            <<Q(-1, 2), Q(1, 2)>>, pr, <<I(4), I(12)>>) :
        z \in (1..MaxSims) \X (1..MaxYears), pr \in Probabilities}

\* the state MonteCarloSimulator(profile, params) leaves, profile a plain
\* mapping
InitConstructed(profiles, Cfgs, seeds) ==
    /\ \E profile \in profiles : props = (1 :> profile)
    /\ callerRef = 1
    /\ calcRef = 1
    /\ simRef = 1
    /\ given \in Cfgs
    /\ pars = (1 :> ValidateParams(given))
    /\ parRef = 1
    /\ status = "ready"
    /\ rng \in seeds
    /\ seed = rng
    /\ finds = TRUE
    /\ run = [t \in Threads |-> NoRun]
    /\ sens = [t \in Threads |-> NoSens]
    /\ scen = [t \in Threads |-> NoScen]
    /\ raised = [t \in Threads |-> "none"]
    /\ returned = << >>
    /\ analysis = << >>
    /\ message = NoMessage
    /\ response = NoResponse
    /\ ops = 0

InitMono == InitConstructed({ProfitProfile, LossProfile}, MonoCfgs, Seeds)

ConstructMono ==
    Construct(Main,
              {[given EXCEPT !["major_repair_probability"] = pr] :
                  pr \in Probabilities \ {given["major_repair_probability"]}},
              {FALSE})

NextMono ==
    \/ ConstructMono
    \/ Reseed(Main)
    \/ RunSimulation(Main)
    \/ TrialBegin(Main)
    \/ YearStep(Main)
    \/ TrialEnd(Main)
    \/ Aggregate(Main)
    \/ Summarize(Main)

SpecMono == InitMono /\ [][NextMono]_vars

\* the same start but for major_repair_probability, which is not greater in a
SameButRepair(a, b) ==
    /\ a.start_rng = b.start_rng
    /\ a.start_profile = b.start_profile
    /\ a.start_calc_profile = b.start_calc_profile
    /\ [a.start_params EXCEPT !["major_repair_probability"] = Zero]
           = [b.start_params EXCEPT !["major_repair_probability"] = Zero]
    /\ QLe(a.start_params["major_repair_probability"],
           b.start_params["major_repair_probability"])

ConcCfgs ==
    {Config(n, 1, <<Zero, Q(1, 2)>>, Zero, <<Zero, Q(1, 2)>>,
            <<Q(-1, 2), Q(1, 2)>>, Zero, <<I(4), I(12)>>) : n \in 1..MaxSims}

ConcSensInputs == {<<"monthly_rent", Q(1, 5)>>, <<"down_payment", One>>}

ConcScenarioLists == {<<[major_repair_probability |-> One]>>}

InitConc == InitConstructed({ProfitProfile}, ConcCfgs, {0})

\* each client thread makes its calls while the other's are in progress;
\* ConcCalls calls are made in all
ConcCalls == 2

NextConc ==
    \/ \E t \in Threads :
        \/ ops < ConcCalls /\ RunSimulation(t)
        \/ TrialBegin(t)
        \/ YearStep(t)
        \/ TrialEnd(t)
        \/ Aggregate(t)
        \/ Summarize(t)
    \/ ops < ConcCalls /\ SensBegin(Other, ConcSensInputs)
    \/ SensMutate(Other)
    \/ SensRestore(Other)
    \/ ops < ConcCalls /\ ScenarioBegin(Other, ConcScenarioLists)
    \/ ScenarioApply(Other)
    \/ ScenarioCollect(Other)

SpecConc == InitConc /\ [][NextConc]_vars

\* C6: every trial of a run reads the profile values and the configuration
\* values the run started with, whatever the other thread does meanwhile.
C6_TrialsReadStartValues == \A t \in Threads : ~run[t].stale

(***************************************************************************)
(* SpecFields: a client constructs a simulator over a profile from which   *)
(* up to two of the required fields may be missing, as a plain mapping or  *)
(* as an object with to_dict, and then analyses and runs it.               *)
(***************************************************************************)
Without(p, keys) == [key \in DOMAIN p \ keys |-> p[key]]

Required == {RequiredFields[i] : i \in 1..Len(RequiredFields)}

FieldProfiles ==
    {Without(ProfitProfile, keys) :
        keys \in {ks \in SUBSET Required : Cardinality(ks) <= 2}}

ConstructFields == status = "new" /\ Construct(Main, OpsCfgs, BOOLEAN)

InitFields == InitWith(FieldProfiles, {0}, {TRUE})

NextFields ==
    \/ ConstructFields
    \/ Analyze(Main)
    \/ RunSimulation(Main)
    \/ TrialBegin(Main)
    \/ YearStep(Main)
    \/ TrialEnd(Main)
    \/ Aggregate(Main)
    \/ Summarize(Main)

SpecFields == InitFields /\ [][NextFields]_vars

\* C11: construction over a profile that lacks a required field fails with
\* ValueError whose message names a required field the profile lacks, no
\* calculator or simulator exists afterwards and no metric or run is ever
\* computed; construction over a profile with all six fields succeeds.
C11_MissingFieldRejected ==
    status # "new" =>
        IF Required \subseteq DOMAIN props[callerRef]
        THEN status = "ready" /\ calcRef # 0 /\ simRef # 0
        ELSE /\ status = "failed"
             /\ raised[Main] = "ValueError"
             /\ message.text = "Missing required field"
             /\ message.about \in Required \ DOMAIN props[callerRef]
             /\ calcRef = 0 /\ simRef = 0
             /\ analysis = << >> /\ returned = << >>
             /\ run[Main] = NoRun

C11_Witness ==
    /\ status = "failed"
    /\ message.about = "monthly_rent"
    /\ DOMAIN props[callerRef] = DOMAIN ProfitProfile \ {"monthly_rent"}

(***************************************************************************)
(* SpecSens: a client constructs a simulator over its profile, as a plain  *)
(* mapping or as an object with to_dict, and calls sensitivity_analysis of *)
(* its calculator SensCalls times.                                         *)
(***************************************************************************)
SensCalls == 2

\* no monthly expenses at all
EmptyExpensesProfile == Profile(100, 20, 96, 0, 1, 12, EmptyDict)

SensProfiles == {ProfitProfile, NoCashProfile, EmptyExpensesProfile}

SensCfg ==
    Config(1, 1, <<Zero, Q(1, 2)>>, Zero, <<Zero, Q(1, 2)>>,
           <<Q(-1, 2), Q(1, 2)>>, Zero, <<I(4), I(12)>>)

SensCases ==
    ({"monthly_rent"} \X {Zero, Q(1, 5), One})
        \cup ({"down_payment", "purchase_price", "monthly_expenses", "square_footage"}
                  \X {Q(1, 5)})
        \cup ({"interest_rate", "loan_term_years"} \X {One})

ConstructSens == status = "new" /\ Construct(Main, {SensCfg}, BOOLEAN)

InitSens == InitWith(SensProfiles, {0}, {TRUE})

NextSens ==
    \/ ConstructSens
    \/ ops <= SensCalls /\ SensBegin(Main, SensCases)
    \/ SensMutate(Main)
    \/ SensRestore(Main)

SpecSens == InitSens /\ [][NextSens]_vars

\* the field is absent from the profile, or is 0, or is an empty mapping
AbsentOrFalsy(p, field) ==
    \/ field \notin DOMAIN p
    \/ p[field] = Zero
    \/ p[field] = << >>

\* C12: a call of sensitivity_analysis on a field that is absent from the
\* calculator's profile or falsy in it raises ValueError saying the field is
\* not found, computes no scenario, and changes neither a profile dict nor
\* the dict the calculator or the caller refers to.
C12_UnknownFieldRejected ==
    [][\A t \in Threads :
         (Idle(t) /\ sens'[t] # sens[t]
                  /\ AbsentOrFalsy(props[calcRef], sens'[t].variable))
             => /\ raised'[t] = "ValueError"
                /\ message' = [text |-> "not found in property data",
                               about |-> sens'[t].variable]
                /\ sens'[t].phase = "idle"
                /\ sens'[t].scenarios = << >>
                /\ props' = props
                /\ calcRef' = calcRef
                /\ callerRef' = callerRef]_vars

C12_Witness ==
    /\ sens[Main].phase = "idle"
    /\ sens[Main].variable = "interest_rate"
    /\ raised[Main] = "ValueError"
    /\ message.about = "interest_rate"
    /\ props[calcRef]["interest_rate"] = Zero

\* what the claim expects of the scenario of multiplier number k: the three
\* metrics of the profile of the call with the field scaled
ExpectedScenario(frame, k) ==
    LET scaled == (frame.variable :>
                       QMul(frame.original_value,
                            Multiplier(k, frame.range_percent))) @@ frame.at_call
    IN  [cash_flow |-> calculate_monthly_cash_flow(scaled),
         cap_rate |-> calculate_cap_rate(scaled),
         coc_return |-> calculate_cash_on_cash_return(scaled)]

\* C13: a call of sensitivity_analysis that passed the entry test raises
\* nothing, and once it has returned its result holds three entries, one for
\* each of the multipliers 1-r, 1 and 1+r, each with the three metrics of
\* the profile of the call with the field scaled by that multiplier.
C13_ThreeScenarios ==
    \A t \in Threads :
        /\ raised[t] \in {"none", "ValueError"}
        /\ SensReturned(t) =>
               /\ Cardinality(DOMAIN sens[t].scenarios) = 3
               /\ \A k \in 1..3 : \E key \in DOMAIN sens[t].scenarios :
                      sens[t].scenarios[key] = ExpectedScenario(sens[t], k)

(***************************************************************************)
(* SpecCalc: a client constructs a simulator over one of a family of       *)
(* profiles (amounts in whole cents) and calls get_comprehensive_analysis  *)
(* of its calculator, repeatedly.                                          *)
(***************************************************************************)
\* all seven recognized categories, closing costs and an unrecognized one
FullExpenses ==
    [property_tax |-> Q(5, 4), insurance |-> Q(1, 100), maintenance |-> I(1),
     vacancy_allowance |-> Q(1, 2), property_management |-> Q(3, 4),
     hoa_fees |-> Q(1, 4), other_expenses |-> Q(6, 25),
     closing_costs |-> I(4), pool_service |-> I(3)]

CalcTerms == {<<0, 1>>, <<0, 2>>, <<0, 3>>, <<1200, 1>>}

CalcProfiles ==
    {Profile(100, 20, loan, rt[1], rt[2], rent, expenses) :
        loan \in {96, 100}, rt \in CalcTerms, rent \in {6, 12},
        expenses \in {EmptyDict, Expenses(2, 4), FullExpenses}}
    \cup {Without(Profile(100, 20, loan, rt[1], rt[2], 12, EmptyDict),
                  {"monthly_expenses"}) : loan \in {96, 100}, rt \in CalcTerms}

ConstructCalc == status = "new" /\ Construct(Main, {SensCfg}, BOOLEAN)

InitCalc == InitWith(CalcProfiles, {0}, {TRUE})

NextCalc ==
    \/ ConstructCalc
    \/ Analyze(Main)

SpecCalc == InitCalc /\ [][NextCalc]_vars

\* an analysis has been made and returned its metrics
Analyzed == analysis # << >> /\ ~IsErr(analysis.result)

\* C14: with an annual interest rate of 0, a principal P > 0 and a term of
\* n > 0 years, the monthly payment of the analysis is P / (12 n) exactly.
C14_ZeroRatePayment ==
    (/\ analysis # << >>
     /\ analysis.of["interest_rate"] = Zero
     /\ analysis.of["loan_amount"].n > 0
     /\ analysis.of["loan_term_years"].n > 0)
        => /\ ~IsErr(analysis.result)
           /\ analysis.result.cash_flow_analysis.monthly_payment =
                  QDiv(analysis.of["loan_amount"],
                       QMul(I(12), analysis.of["loan_term_years"]))

C14_Witness ==
    /\ Analyzed
    /\ analysis.of["interest_rate"] = Zero
    /\ analysis.of["loan_amount"] = I(100)
    /\ analysis.of["loan_term_years"] = I(3)
    /\ analysis.result.cash_flow_analysis.monthly_payment = Q(25, 9)

\* the amount is a whole number of cents
IsCents(x) == (x.n * 100) % x.d = 0

\* C15: every money-valued metric of an analysis is rounded to 2 decimal
\* places.
C15_MoneyRoundedToCents ==
    Analyzed =>
        /\ \A metric \in {"monthly_payment", "total_monthly_expenses",
                          "monthly_cash_flow", "annual_cash_flow",
                          "net_operating_income"} :
               IsCents(analysis.result.cash_flow_analysis[metric])
        /\ IsCents(analysis.result.loan_analysis.annual_interest_payment)
        /\ IsCents(analysis.result.loan_analysis.annual_principal_paydown)

\* C16: get_comprehensive_analysis changes no profile dict and no reference
\* to one, and called again over the profile the previous call read it
\* returns the result the previous call returned.
C16_AnalysisIdempotent ==
    [][Analyze(Main) =>
          /\ props' = props
          /\ calcRef' = calcRef
          /\ callerRef' = callerRef
          /\ (analysis # << >> /\ analysis.of = props[calcRef])
                 => analysis'.result = analysis.result]_vars

C16_Witness == Analyzed /\ ops >= 3 /\ analysis.of = props[calcRef]

\* C19: the total monthly expenses of an analysis are the sum of the seven
\* recognized categories of the profile's expense mapping, a category that is
\* missing (or the whole mapping) counting as 0.
C19_SevenCategories ==
    Analyzed =>
        LET expenses == IF "monthly_expenses" \in DOMAIN analysis.of
                        THEN analysis.of["monthly_expenses"] ELSE << >>
            amount(category) ==
                IF category \in DOMAIN expenses THEN expenses[category] ELSE Zero
        IN  analysis.result.cash_flow_analysis.total_monthly_expenses =
                QAdd(amount("property_tax"),
                QAdd(amount("insurance"),
                QAdd(amount("maintenance"),
                QAdd(amount("vacancy_allowance"),
                QAdd(amount("property_management"),
                QAdd(amount("hoa_fees"), amount("other_expenses")))))))

C19_Witness ==
    /\ Analyzed
    /\ "monthly_expenses" \in DOMAIN analysis.of
    /\ analysis.of["monthly_expenses"] = FullExpenses
    /\ analysis.result.cash_flow_analysis.total_monthly_expenses = I(4)

\* C20: the monthly cash flow of an analysis is the rent less the monthly
\* payment less the total monthly expenses, and the annual cash flow is 12
\* times the monthly cash flow.
C20_CashFlowIdentity ==
    Analyzed =>
        LET flows == analysis.result.cash_flow_analysis
        IN  /\ flows.monthly_cash_flow =
                   QSub(QSub(analysis.of["monthly_rent"], flows.monthly_payment),
                        flows.total_monthly_expenses)
            /\ flows.annual_cash_flow = QMul(I(12), flows.monthly_cash_flow)

(***************************************************************************)
(* SpecVerdict: _generate_summary as a function of the statistics and the  *)
(* risk metrics.  A run of a constructed simulator stands before its last  *)
(* step, with an expected return and a probability of loss drawn from      *)
(* values on and around the thresholds; the step builds the result.        *)
(***************************************************************************)
VerdictReturns == {I(m) : m \in {-1, 0, 1, 20000, 20001, 50000, 50001}}

VerdictLosses ==
    {Zero, Q(9, 100), Q(1, 10), Q(19, 100), Q(1, 5), Q(1, 4), Q(29, 100),
     Q(3, 10), Q(39, 100), Q(2, 5), One}

SummarizingFrame(expected_return, prob_loss) ==
    [Frame("user", ValidateParams(SensCfg)) EXCEPT
        !.phase = "Summarizing",
        !.statistics = [metric \in StatMetrics |-> MetricStats(<<expected_return>>)],
        !.risk_metrics =
            [probability_of_loss |-> prob_loss,
             probability_of_negative_cash_flow |-> prob_loss,
             value_at_risk_5 |-> expected_return,
             value_at_risk_10 |-> expected_return,
             expected_shortfall_5 |-> expected_return,
             sharpe_ratio |-> Zero,
             coefficient_of_variation |-> Zero]]

InitVerdict ==
    /\ props = (1 :> ProfitProfile)
    /\ callerRef = 1
    /\ calcRef = 1
    /\ simRef = 1
    /\ given = SensCfg
    /\ pars = (1 :> ValidateParams(SensCfg))
    /\ parRef = 1
    /\ status = "ready"
    /\ rng = 0
    /\ seed = 0
    /\ finds = TRUE
    /\ \E expected_return \in VerdictReturns, prob_loss \in VerdictLosses :
           run = [t \in Threads |->
                     IF t = Main THEN SummarizingFrame(expected_return, prob_loss)
                     ELSE NoRun]
    /\ sens = [t \in Threads |-> NoSens]
    /\ scen = [t \in Threads |-> NoScen]
    /\ raised = [t \in Threads |-> "none"]
    /\ returned = << >>
    /\ analysis = << >>
    /\ message = NoMessage
    /\ response = NoResponse
    /\ ops = 1

NextVerdict == Summarize(Main)

SpecVerdict == InitVerdict /\ [][NextVerdict]_vars

\* a < b for numbers with positive denominators
Below(a, b) == a.n * b.d < b.n * a.d

\* the two tables of the verdict, rows in order, the first match winning
TableRisk(p) ==
    CASE Below(p, Q(10, 100)) -> "Low"
      [] ~Below(p, Q(10, 100)) /\ Below(p, Q(25, 100)) -> "Moderate"
      [] ~Below(p, Q(25, 100)) /\ Below(p, Q(40, 100)) -> "High"
      [] OTHER -> "Very High"

TableRecommendation(m, p) ==
    LET strong == Below(I(50000), m) /\ Below(p, Q(20, 100))
        buy == Below(I(20000), m) /\ Below(p, Q(30, 100))
        hold == Below(Zero, m) /\ Below(p, Q(40, 100))
    IN  CASE strong -> "Strong Buy"
          [] ~strong /\ buy -> "Buy"
          [] ~strong /\ ~buy /\ hold -> "Hold"
          [] OTHER -> "Avoid"

\* C17: the summary of every result carries the risk level and the
\* recommendation the two tables give for its probability of loss and its
\* expected return, a value on a threshold falling in the later row.
C17_VerdictTables ==
    \A i \in 1..Len(returned) :
        LET result == returned[i]
            p == result.risk_metrics.probability_of_loss
            m == result.statistics["total_returns"].mean
        IN  /\ result.summary.probability_of_loss = p
            /\ result.summary.expected_return = m
            /\ result.summary.risk_level = TableRisk(p)
            /\ result.summary.recommendation = TableRecommendation(m, p)

C17_Witness ==
    \E i \in 1..Len(returned) :
        /\ returned[i].risk_metrics.probability_of_loss = Q(1, 5)
        /\ returned[i].statistics["total_returns"].mean = I(50001)
        /\ returned[i].summary.risk_level = "Moderate"
        /\ returned[i].summary.recommendation = "Buy"

(***************************************************************************)
(* SpecMerge: the simulator is constructed with configurations that omit   *)
(* fields and may carry a key the simulator does not know; the client runs *)
(* it, constructs it again with the unknown key added or dropped, reseeds  *)
(* and runs again.  Runs are made of configurations whose sizes are within *)
(* the bounds of the model.                                                *)
(***************************************************************************)
UnknownKey == "discount_rate"

OmittedKeys ==
    {keys \in SUBSET {"simulations", "years", "rent_growth_range",
                      "expense_volatility", "major_repair_probability"} :
        Cardinality(keys) <= 2}

MergeCfgs ==
    {Without(SensCfg, keys) : keys \in OmittedKeys}
        \cup {(UnknownKey :> Q(1, 2)) @@ Without(SensCfg, keys) : keys \in OmittedKeys}

ToggleUnknown(params) ==
    IF UnknownKey \in DOMAIN params THEN Without(params, {UnknownKey})
    ELSE (UnknownKey :> Q(1, 2)) @@ params

InitMerge == InitConstructed({ProfitProfile}, MergeCfgs, {0, 2})

ConstructMerge == Construct(Main, {ToggleUnknown(given)}, {FALSE})

RunWithinBounds ==
    /\ pars[parRef]["simulations"] <= MaxSims
    /\ pars[parRef]["years"] <= MaxYears
    /\ RunSimulation(Main)

NextMerge ==
    \/ ConstructMerge
    \/ Reseed(Main)
    \/ RunWithinBounds
    \/ TrialBegin(Main)
    \/ YearStep(Main)
    \/ TrialEnd(Main)
    \/ Aggregate(Main)
    \/ Summarize(Main)

SpecMerge == InitMerge /\ [][NextMerge]_vars

\* the keys the simulator recognizes
KnownKeys ==
    {"simulations", "years", "rent_growth_range", "expense_volatility",
     "vacancy_rate_range", "interest_rate_volatility", "appreciation_range",
     "major_repair_probability", "major_repair_cost_range"}

\* two runs from the same generator state and profile, of configurations that
\* agree on every recognized key
SameButUnknown(a, b) ==
    /\ a.start_rng = b.start_rng
    /\ a.start_profile = b.start_profile
    /\ a.start_calc_profile = b.start_calc_profile
    /\ Without(a.start_params, DOMAIN a.start_params \ KnownKeys)
           = Without(b.start_params, DOMAIN b.start_params \ KnownKeys)

\* C18: the configuration of a constructed simulator holds the caller's
\* value for every key the caller gave (a key the simulator does not know
\* included), the default for every other key (simulations 10000, years 10),
\* and nothing else; and two runs that differ only in keys the simulator
\* does not know have the same trials, statistics, risk metrics and summary.
C18_ShallowMerge ==
    /\ status = "ready" =>
           /\ DOMAIN pars[parRef] = KnownKeys \cup DOMAIN given
           /\ \A key \in DOMAIN given : pars[parRef][key] = given[key]
           /\ \A key \in KnownKeys \ DOMAIN given :
                  pars[parRef][key] = default_params[key]
           /\ "simulations" \notin DOMAIN given => pars[parRef]["simulations"] = 10000
           /\ "years" \notin DOMAIN given => pars[parRef]["years"] = 10
    /\ \A i, j \in 1..Len(returned) :
           SameButUnknown(returned[i], returned[j]) =>
               /\ returned[i].raw_results = returned[j].raw_results
               /\ returned[i].statistics = returned[j].statistics
               /\ returned[i].risk_metrics = returned[j].risk_metrics
               /\ returned[i].summary = returned[j].summary

C18_Witness ==
    /\ Len(returned) = 2
    /\ SameButUnknown(returned[1], returned[2])
    /\ UnknownKey \in DOMAIN returned[1].start_params
    /\ UnknownKey \notin DOMAIN returned[2].start_params
    /\ "expense_volatility" \notin DOMAIN given
    /\ pars[parRef]["expense_volatility"] = Q(1, 10)

(***************************************************************************)
(* The phases of a run (SpecRun).                                          *)
(***************************************************************************)
\* the steps of the state machine of a run, and the start of a new run by a
\* thread whose previous run has ended
PhaseSteps ==
    {<<"Simulating", "Simulating">>, <<"Simulating", "Aggregating">>,
     <<"Aggregating", "Aggregating">>, <<"Aggregating", "Summarizing">>,
     <<"Summarizing", "Summarizing">>, <<"Summarizing", "Done">>,
     <<"Done", "Done">>,
     <<"Configured", "Simulating">>, <<"Done", "Simulating">>,
     <<"Aborted", "Aborted">>, <<"Aborted", "Simulating">>}

\* C21: a run of a configuration with simulations >= 1 and years >= 1 moves
\* through Simulating, Aggregating, Summarizing and Done in this order and
\* leaves this path nowhere; it enters Aggregating with exactly S trials
\* recorded, and the result it returns carries the summary of the statistics
\* and risk metrics of this run.
C21_PhaseOrder ==
    [][\A t \in Threads :
         (run'[t].simulations >= 1 /\ run'[t].years >= 1) =>
             /\ <<run[t].phase, run'[t].phase>> \in PhaseSteps
             /\ (run[t].phase = "Simulating" /\ run'[t].phase = "Aggregating")
                    => Len(run'[t].outcomes) = run'[t].simulations
             /\ (run[t].phase = "Summarizing" /\ run'[t].phase = "Done"
                     /\ run[t].caller = "user")
                    => returned'[Len(returned')].summary =
                           generate_summary(run[t].statistics, run[t].risk_metrics)]_vars

(***************************************************************************)
(* The HTTP layer: run_monte_carlo of routes/properties.py, serving a      *)
(* request for a stored property (an object with to_dict).  The handler    *)
(* builds the parameters from the JSON payload, constructs a simulator,    *)
(* runs it and answers; every exception is caught by one except clause.    *)
(***************************************************************************)
\* lines 188-195: the six keys the handler reads from the payload
RequestParams(data) ==
    [simulations |-> Get(data, "simulations", 10000),
     years |-> Get(data, "years", 10),
     rent_growth_range |-> Get(data, "rent_growth_range", <<Q(2, 100), Q(5, 100)>>),
     expense_volatility |-> Get(data, "expense_volatility", Q(1, 10)),
     vacancy_rate_range |-> Get(data, "vacancy_rate_range", <<Q(5, 100), Q(15, 100)>>),
     interest_rate_volatility |-> Get(data, "interest_rate_volatility", Q(2, 100))]

NoError == [text |-> "", about |-> ""]

\* lines 184-186: the payload is read and the parameters are built
HttpReceive(Payloads) ==
    /\ response = NoResponse
    /\ status = "new"
    /\ \E data \in Payloads :
           response' = [state |-> "serving", code |-> 0, error |-> NoError,
                        params |-> RequestParams(data)]
    /\ UNCHANGED <<props, callerRef, calcRef, simRef, pars, parRef, status, given, rng,
                   seed, finds, run, sens, scen, raised, returned, analysis, message, ops>>

\* line 198
HttpConstruct(t) ==
    /\ response.state = "serving"
    /\ status = "new"
    /\ Construct(t, {response.params}, {TRUE})

\* line 199
HttpRun(t) ==
    /\ response.state = "serving"
    /\ run[t].phase = "Configured"
    /\ RunSimulation(t)

\* lines 201-209: the response, 200 with the results or 500 with a fixed text
HttpRespond(t) ==
    /\ response.state = "serving"
    /\ \/ /\ status = "failed" \/ run[t].phase = "Aborted"
          /\ response' = [response EXCEPT
                 !.state = "sent", !.code = 500,
                 !.error = [text |-> "Monte Carlo simulation failed", about |-> ""]]
       \/ /\ run[t].phase = "Done"
          /\ response' = [response EXCEPT !.state = "sent", !.code = 200]
    /\ UNCHANGED <<props, callerRef, calcRef, simRef, pars, parRef, status, given, rng,
                   seed, finds, run, sens, scen, raised, returned, analysis, message, ops>>

Payloads ==
    {[simulations |-> n, years |-> 1, rent_growth_range |-> rent,
      vacancy_rate_range |-> vacancy, expense_volatility |-> Zero] :
        n \in 1..MaxSims,
        rent \in {<<Zero, Q(1, 2)>>, <<Q(1, 4)>>},
        vacancy \in {<<Zero, Q(1, 2)>>, <<Q(1, 4), Q(1, 2), One>>}}

InitHttp == InitWith({ProfitProfile, LossProfile}, {0, 2}, {TRUE})

NextHttp ==
    \/ HttpReceive(Payloads)
    \/ HttpConstruct(Main)
    \/ HttpRun(Main)
    \/ TrialBegin(Main)
    \/ YearStep(Main)
    \/ TrialEnd(Main)
    \/ Aggregate(Main)
    \/ Summarize(Main)
    \/ HttpRespond(Main)

SpecHttp == InitHttp /\ [][NextHttp]_vars

\* C22: the response to a request during which the core raised a validation
\* error is an error response that carries the field or the reason the
\* error named.
C22_ErrorReasonPreserved ==
    (response.state = "sent" /\ raised[Main] = "ValueError") =>
        /\ response.code # 200
        /\ \/ response.error.about = message.about
           \/ response.error.text = message.text

(***************************************************************************)
(* Properties of scenario_analysis's handling of params (Spec).            *)
(***************************************************************************)
\* the configuration run_simulation reads in a scenario: the overrides laid
\* over P, simulations capped at 1000
ScenarioParams(P, overrides) ==
    [Merge(P, overrides) EXCEPT !["simulations"] = Min(1000, Merge(P, overrides)["simulations"])]

\* C23: every scenario runs against the pre-call params overridden by its own
\* fields only, and simulator.params holds its pre-call values after each
\* scenario and when the call ends, by a return or by a raise of the run.
C23_ScenarioParamsTemporary ==
    [][\A t \in Threads :
          /\ (scen[t].phase = "loop" /\ scen'[t].phase = "running") =>
                run'[t].start_params = ScenarioParams(scen[t].before, scen[t].todo[1])
          /\ (scen[t].phase \in {"running", "collect"} /\ scen'[t].phase \in {"idle", "loop"}) =>
                pars'[parRef'] = scen[t].before]_vars

\* the same two properties of the calls whose runs all return
C23_OnReturn ==
    [][\A t \in Threads :
          /\ (scen[t].phase = "loop" /\ scen'[t].phase = "running") =>
                run'[t].start_params = ScenarioParams(scen[t].before, scen[t].todo[1])
          /\ (scen[t].phase = "collect" /\ scen'[t].phase \in {"idle", "loop"}) =>
                pars'[parRef'] = scen[t].before]_vars

(***************************************************************************)
(* Properties of one trial (SpecRun).                                      *)
(***************************************************************************)
RECURSIVE Compound(_, _, _)
\* x * (1 + rates[1]) * ... * (1 + rates[k])
Compound(x, rates, k) ==
    IF k = 0 THEN x
    ELSE QMul(Compound(x, rates, k - 1), QAdd(One, rates[k]))

RentGrowths(t) == [j \in 1..Len(run[t].draws) |-> run[t].draws[j].rent_growth]

Appreciations(t) == [j \in 1..Len(run[t].draws) |-> run[t].draws[j].appreciation_rate]

\* the cash flow of year k of the trial in the frame of t, from the profile
\* and the year's random factors
ExpectedYear(t, k) ==
    LET d == run[t].draws[k]
        rent == QMul(Compound(props[simRef]["monthly_rent"], RentGrowths(t), k),
                     QSub(One, d.vacancy_rate))
        expenses == QMul(calculate_total_monthly_expenses(props[calcRef]),
                         d.expense_multiplier)
        payment == calculate_monthly_payment(props[calcRef])
    IN  QSub(QMul(I(12), QSub(QSub(rent, payment), expenses)),
             IF d.repair_event THEN d.major_repair_cost ELSE Zero)

\* C24: every year's annual cash flow of a trial is 12 x (initial rent
\* compounded by the growth rates up to that year, less vacancy, less the
\* payment, less the initial expenses times the year's multiplier) less the
\* year's repair cost, which is 0 in a year without a repair event.
C24_YearCashFlow ==
    \A t \in Threads :
        run[t].in_trial =>
            /\ Len(run[t].annual_cash_flows) = Len(run[t].draws)
            /\ \A k \in 1..Len(run[t].draws) :
                  /\ run[t].annual_cash_flows[k] = ExpectedYear(t, k)
                  /\ ~run[t].draws[k].repair_event =>
                        run[t].draws[k].major_repair_cost = Zero

\* a trial of two years with growing rent, a year with a repair and a year
\* without
C24_Witness ==
    \E t \in Threads :
        /\ run[t].in_trial
        /\ Len(run[t].annual_cash_flows) = 2
        /\ \A k \in 1..2 : ~QIsZero(run[t].draws[k].rent_growth)
        /\ \E k \in 1..2 : run[t].draws[k].repair_event
        /\ \E k \in 1..2 : ~run[t].draws[k].repair_event

\* the frame of t holds the random factors of the trial it recorded last
Recorded(t) ==
    /\ ~run[t].in_trial
    /\ run[t].phase # "Aborted"
    /\ run[t].outcomes # << >>

LastOutcome(t) == run[t].outcomes[Len(run[t].outcomes)]

RECURSIVE SumOfYears(_, _)
SumOfYears(t, k) == IF k = 0 THEN Zero ELSE QAdd(SumOfYears(t, k - 1), ExpectedYear(t, k))

\* down_payment plus the closing costs, 0 when the profile names none
ExpectedInvestment(p) ==
    IF "monthly_expenses" \in DOMAIN p /\ "closing_costs" \in DOMAIN p["monthly_expenses"]
    THEN QAdd(p["down_payment"], p["monthly_expenses"]["closing_costs"])
    ELSE p["down_payment"]

\* C25: a recorded trial's cumulative cash flow is the sum of its years, its
\* final property value the purchase price compounded by the years'
\* appreciation rates, its total return the cumulative cash flow plus the
\* appreciation gain less down payment and closing costs, and its IRR is
\* computed over the series of years+1 entries that starts with the negated
\* investment and ends with the last year's cash flow plus the gain.
C25_TrialTotals ==
    \A t \in Threads :
        Recorded(t) =>
            LET o == LastOutcome(t)
                years == run[t].years
                price == props[simRef]["purchase_price"]
                final == Compound(price, Appreciations(t), years)
                gain == QSub(final, price)
                investment == ExpectedInvestment(props[simRef])
                series == [i \in 1..(years + 1) |->
                              IF i = 1 THEN QNeg(investment)
                              ELSE IF i = years + 1
                                   THEN QAdd(ExpectedYear(t, years), gain)
                                   ELSE ExpectedYear(t, i - 1)]
            IN  /\ Len(o.annual_cash_flows) = years
                /\ o.cumulative_cash_flow = SumOfYears(t, years)
                /\ o.final_property_value = final
                /\ o.total_return =
                       QSub(QAdd(SumOfYears(t, years), gain), investment)
                /\ IrrSeries(o.annual_cash_flows, investment, gain) = series
                /\ o.irr_failed = (NpfIrr(series, finds) = NaN)
                /\ ~o.irr_failed => o.irr = Percent(NpfIrr(series, finds))

\* a recorded trial of two years over a profile with closing costs, whose
\* property value changed and whose IRR the library found
C25_Witness ==
    \E t \in Threads :
        /\ Recorded(t)
        /\ run[t].years = 2
        /\ ExpectedInvestment(props[simRef]) # props[simRef]["down_payment"]
        /\ LastOutcome(t).final_property_value # props[simRef]["purchase_price"]
        /\ ~LastOutcome(t).irr_failed

\* a recorded trial over a profile without closing costs
C25_NoClosingCosts ==
    \E t \in Threads :
        /\ Recorded(t)
        /\ ExpectedInvestment(props[simRef]) = props[simRef]["down_payment"]

(***************************************************************************)
(* Properties of the risk metrics and statistics (SpecRun).                *)
(***************************************************************************)
\* the frame of t holds the risk metrics of its recorded trials
Measured(t) == run[t].phase \in {"Summarizing", "Done"} /\ run[t].risk_metrics # << >>

TotalReturns(t) == Column(run[t].outcomes, "total_return")

RECURSIVE SumAt(_, _)
SumAt(xs, idx) ==
    IF idx = {} THEN Zero
    ELSE LET i == CHOOSE j \in idx : TRUE
         IN  QAdd(xs[i], SumAt(xs, idx \ {i}))

\* the trials whose total return is at most the 5% value at risk
Tail5(t) ==
    {i \in 1..Len(TotalReturns(t)) :
        QLe(TotalReturns(t)[i], run[t].risk_metrics.value_at_risk_5)}

\* C26: with at least one trial, expected_shortfall_5 is a number: the mean
\* of the total returns that are at most value_at_risk_5, or value_at_risk_5
\* itself when no total return is.
C26_ExpectedShortfall ==
    \A t \in Threads :
        Measured(t) =>
            LET r == run[t].risk_metrics
            IN  /\ run[t].simulations >= 1
                /\ IsNum(r.expected_shortfall_5)
                /\ IF Tail5(t) = {}
                   THEN r.expected_shortfall_5 = r.value_at_risk_5
                   ELSE QMul(r.expected_shortfall_5, I(Cardinality(Tail5(t)))) =
                            SumAt(TotalReturns(t), Tail5(t))

\* two trials of different total return: the tail holds one of them
C26_Witness ==
    \E t \in Threads :
        /\ Measured(t)
        /\ Len(TotalReturns(t)) = 2
        /\ Cardinality(Tail5(t)) = 1

\* risk metrics whose tail holds no trial
C26_EmptyTail == \E t \in Threads : Measured(t) /\ Tail5(t) = {}

(***************************************************************************)
(* Properties of the profile held by the simulator and by its calculator   *)
(* (Spec).                                                                 *)
(***************************************************************************)
\* C27: whenever an operation of a constructed simulator has ended,
\* simulator.property and calculator.property hold the same field values,
\* those they held before the operation (and so those of construction).
C27_ProfileKept ==
    [][(status = "ready" /\ status' = "ready" /\ \A t \in Threads : Idle(t)') =>
          /\ props'[simRef'] = props'[calcRef']
          /\ \A t \in Threads :
                sens[t].phase # "idle" => props'[simRef'] = sens[t].at_call
          /\ (\A t \in Threads : sens[t].phase = "idle") =>
                props'[simRef'] = props[simRef]]_vars

(***************************************************************************)
(* Properties of the results handed to the client (Spec).                  *)
(***************************************************************************)
\* C28: a result returned by run_simulation is not changed by later
\* operations on the simulator: the dict its simulation_parameters refers
\* to holds the values it held when the result was returned.
C28_ResultKept ==
    \A i \in 1..Len(returned) :
        pars[returned[i].params_ref] = returned[i].simulation_parameters

\* a <= b <= c <= ... along the sequence xs
Ascending(xs) == \A i \in 1..(Len(xs) - 1) : QLe(xs[i], xs[i + 1])

\* minimum, percentiles and maximum of one metric, in the order of the ranks
Ranks(m) ==
    <<m.min, m.percentiles.p5, m.percentiles.p10, m.percentiles.p25, m.median,
      m.percentiles.p75, m.percentiles.p90, m.percentiles.p95, m.max>>

\* C29: in every returned result, expected_shortfall_5 <= value_at_risk_5 <=
\* value_at_risk_10; the summary's worst case is value_at_risk_5, the lower
\* end of its 80% interval is value_at_risk_10, and worst case <= lower end
\* <= upper end <= best case; every metric's minimum, percentiles, median
\* and maximum ascend with their ranks (metrics of numbers; an IRR kept as a
\* term has no computed order); every trial's worst year is at most its
\* best year.
C29_Orderings ==
    \A i \in 1..Len(returned) :
        LET R == returned[i]
            risk == R.risk_metrics
            sum == R.summary
        IN  /\ R.simulations >= 1
            /\ Ascending(<<risk.expected_shortfall_5, risk.value_at_risk_5,
                           risk.value_at_risk_10>>)
            /\ sum.worst_case_scenario = risk.value_at_risk_5
            /\ sum.confidence_interval_80[1] = risk.value_at_risk_10
            /\ Ascending(<<sum.worst_case_scenario, sum.confidence_interval_80[1],
                           sum.confidence_interval_80[2], sum.best_case_scenario>>)
            /\ \A m \in StatMetrics :
                  AllNum(R.raw_results[m]) => Ascending(Ranks(R.statistics[m]))
            /\ \A j \in 1..Len(R.raw_results["worst_year_cash_flows"]) :
                  QLe(R.raw_results["worst_year_cash_flows"][j],
                      R.raw_results["best_year_cash_flows"][j])

\* a returned result of two trials of two years whose value at risk at 5%
\* is below the one at 10%, with a trial whose years differ and IRRs that
\* are numbers
C29_Witness ==
    \E i \in 1..Len(returned) :
        LET R == returned[i]
        IN  /\ R.simulations = 2
            /\ R.risk_metrics.value_at_risk_5 # R.risk_metrics.value_at_risk_10
            /\ R.raw_results["worst_year_cash_flows"] # R.raw_results["best_year_cash_flows"]
            /\ AllNum(R.raw_results["irr_values"])

(***************************************************************************)
(* SpecExact: runs of a simulator whose configuration removes all          *)
(* randomness from the cash flows: rent growth 0, vacancy 0, no expense    *)
(* volatility, no repair.  The profiles are those of SpecCalc.             *)
(***************************************************************************)
ExactCfgs ==
    {Config(z[1], z[2], <<Zero, Zero>>, Zero, <<Zero, Zero>>, a, Zero, <<I(4), I(12)>>) :
        z \in (1..MaxSims) \X (1..MaxYears),
        a \in {<<Zero, Zero>>, <<Q(1, 4), Q(1, 4)>>}}

ConstructExact == status = "new" /\ Construct(Main, ExactCfgs, BOOLEAN)

InitExact == InitWith(CalcProfiles, {0, 5}, {TRUE})

NextExact ==
    \/ ConstructExact
    \/ RunSimulation(Main)
    \/ TrialBegin(Main)
    \/ YearStep(Main)
    \/ TrialEnd(Main)
    \/ Aggregate(Main)
    \/ Summarize(Main)

SpecExact == InitExact /\ [][NextExact]_vars

\* the year's random factors leave the cash flow alone
Neutral(d) ==
    /\ QIsZero(d.rent_growth)
    /\ QIsZero(d.vacancy_rate)
    /\ d.expense_multiplier = One
    /\ ~d.repair_event

\* C30: in a trial without randomness every year's annual cash flow is the
\* calculator's calculate_annual_cash_flow() of the same profile, and the
\* investment the trial's total return is charged with is the down payment
\* plus closing costs that calculate_cash_on_cash_return divides by.
C30_TrialRefinesCalculator ==
    \A t \in Threads :
        /\ (run[t].in_trial /\ \A k \in 1..Len(run[t].draws) : Neutral(run[t].draws[k])) =>
              \A k \in 1..Len(run[t].annual_cash_flows) :
                  run[t].annual_cash_flows[k] = calculate_annual_cash_flow(props[calcRef])
        /\ Recorded(t) =>
              LET o == LastOutcome(t)
                  gain == QSub(o.final_property_value, props[simRef]["purchase_price"])
              IN  QSub(QAdd(o.cumulative_cash_flow, gain), o.total_return) =
                      TotalInvestment(props[calcRef])

\* the same for the profiles whose monthly payment is an amount of cents
C30_OfCentPayments ==
    \A t \in Threads :
        (/\ run[t].in_trial
         /\ IsCents(calculate_monthly_payment(props[calcRef]))
         /\ \A k \in 1..Len(run[t].draws) : Neutral(run[t].draws[k])) =>
              \A k \in 1..Len(run[t].annual_cash_flows) :
                  run[t].annual_cash_flows[k] = calculate_annual_cash_flow(props[calcRef])

=============================================================================
